---- MODULE Spec2Model ----
(***************************************************************************)
(* hal-simplicity: binding Simplicity programs to Elements PSET inputs.    *)
(*                                                                         *)
(* Every operation of src/src/actions/simplicity is a function from its    *)
(* string arguments to a typed result; the only state that lives between   *)
(* two calls is the PSET the caller holds and hands to the next call.  The *)
(* operations are modelled as operators (one per function, step by step in *)
(* the order of the code) and the specifications below apply them: to      *)
(* PSETs a caller may supply (SpecRequest), and in sequences that start    *)
(* from pset_create (Spec).                                                *)
(***************************************************************************)
EXTENDS Integers, Sequences, FiniteSets, TLC

VARIABLES
    pset,     \* the PSET string the caller holds (<<>> before any exists)
    call,     \* the last call: operation name and arguments
    result,   \* what that call returned: Ok(value) or Err(error)
    mem,      \* the callee's in-memory PSET when that call returned
    prev      \* the call whose returned PSET the caller holds

vars == <<pset, call, result, mem, prev>>

----------------------------------------------------------------------------
(* Bounds of the model *)

MaxInputs == 2
MaxOutputs == 1

----------------------------------------------------------------------------
(* Option and Result *)

None == <<>>
Some(x) == <<x>>
IsSome(o) == Len(o) = 1
Unwrap(o) == o[1]

Ok(v) == [ok |-> TRUE, val |-> v]
Err(e) == [ok |-> FALSE, err |-> e]

\* what a call leaves behind: its result, and the PSET copy it worked on
\* (None when it never parsed one)
Returned(res, p) == [res |-> res, mem |-> p]

----------------------------------------------------------------------------
(* Strings.  An argument string is what it decodes to, tagged with its     *)
(* encoding; Junk is a string no decoder accepts.                          *)

Junk == <<"junk">>
DecStr(n) == <<"dec", n>>
HexStr(b) == <<"hex", b>>
B64Str(p) == <<"b64", p>>

\* str::parse::<u32> / <usize>
ParseInt(s) == IF s[1] = "dec" THEN Ok(s[2]) ELSE Err([kind |-> "ParseIntError"])

----------------------------------------------------------------------------
(* Commitment Merkle roots, leaf scripts, leaf versions *)

CmrLen == 32
SimplicityLeafVersion == 190
TapScriptLeafVersion == 196

CmrIds == {1, 2}
\* the 32 bytes of the CMR with id c
CmrBytes(c) == [i \in 1..CmrLen |-> c]
\* Cmr::to_string / Cmr::from_str: lowercase hex of the 32 bytes
CmrToString(c) == HexStr(CmrBytes(c))
ParseCmr(s) ==
    IF s[1] = "hex" /\ Len(s[2]) = CmrLen /\ \E c \in CmrIds : s[2] = CmrBytes(c)
    THEN Ok(CHOOSE c \in CmrIds : s[2] = CmrBytes(c))
    ELSE Err([kind |-> "HexToArrayError"])

\* the CMR bytes under the tapscript leaf version
script_verTapscript(c) == <<CmrBytes(c), TapScriptLeafVersion>>

\* hal_simplicity::script_ver: the CMR bytes verbatim as the leaf script
script_ver(c) == <<CmrBytes(c), SimplicityLeafVersion>>

----------------------------------------------------------------------------
(* Control blocks.  Ord is derived on (leaf_version, output_key_parity,    *)
(* internal_key, merkle_branch), which is the order BTreeMap iterates in.  *)

ControlBlock(ver, parity, key, branch) ==
    [leaf_version |-> ver, output_key_parity |-> parity,
     internal_key |-> key, merkle_branch |-> branch]

SeqLess(a, b) ==
    \E i \in 1..(Len(a) + 1) :
        /\ i <= Len(b)
        /\ \A j \in 1..(i - 1) : a[j] = b[j]
        /\ (i = Len(a) + 1 \/ a[i] < b[i])

CbLess(a, b) ==
    \/ a.leaf_version < b.leaf_version
    \/ /\ a.leaf_version = b.leaf_version
       /\ \/ a.output_key_parity < b.output_key_parity
          \/ /\ a.output_key_parity = b.output_key_parity
             /\ \/ a.internal_key < b.internal_key
                \/ /\ a.internal_key = b.internal_key
                   /\ SeqLess(a.merkle_branch, b.merkle_branch)

\* ControlBlock::serialize: version|parity byte, internal key, merkle path
SerializeControlBlock(cb) ==
    <<cb.leaf_version + cb.output_key_parity, cb.internal_key>> \o cb.merkle_branch

\* the keys of a BTreeMap in iteration (ascending) order
RECURSIVE SortedKeys(_)
SortedKeys(S) ==
    IF S = {} THEN <<>>
    ELSE LET lo == CHOOSE x \in S : \A y \in S \ {x} : CbLess(x, y)
         IN  <<lo>> \o SortedKeys(S \ {lo})

----------------------------------------------------------------------------
(* Block hashes (genesis hash) *)

HashLen == 32

\* the fallback of execution_environment, "copied out of simplicity-webide source"
DefaultGenesisHash ==
    <<193, 177, 106, 226, 79, 36, 35, 174, 162, 234, 52, 85, 34, 146,
      121, 59, 91, 94, 130, 153, 154, 30, 237, 129, 213, 106, 238, 82,
      142, 218, 113, 167>>

\* a fallback to the hash of the Bitcoin mainnet genesis block
SighashDefaultBitcoinGenesis ==
    <<0, 0, 0, 0, 0, 25, 214, 104, 156, 8, 90, 225, 101, 131, 30, 147,
      79, 247, 99, 174, 70, 162, 166, 193, 114, 179, 241, 182, 10, 140, 226, 111>>

\* the fallback of simplicity_sighash, under the comment "Default to Bitcoin
\* blockhash"
SighashDefaultGenesisHash ==
    <<193, 177, 106, 226, 79, 36, 35, 174, 162, 234, 52, 85, 34, 146,
      121, 59, 91, 94, 130, 153, 154, 30, 237, 129, 213, 106, 238, 82,
      142, 218, 113, 167>>

\* the fallback of the daemon's sighash handler
DaemonSighashDefaultGenesisHash ==
    <<193, 177, 106, 226, 79, 36, 35, 174, 162, 234, 52, 85, 34, 146,
      121, 59, 91, 94, 130, 153, 154, 30, 237, 129, 213, 106, 238, 82,
      142, 218, 113, 167>>

Reverse(b) == [i \in 1..Len(b) |-> b[Len(b) + 1 - i]]

\* a parse that falls back to the default on a malformed string
ParseBlockHashOrDefault(s) ==
    IF s[1] = "hex" /\ Len(s[2]) = HashLen
    THEN Ok(Reverse(s[2]))
    ELSE Ok(DefaultGenesisHash)

\* str::parse::<BlockHash>: 64 hex digits, displayed byte-reversed
ParseBlockHash(s) ==
    IF s[1] = "hex" /\ Len(s[2]) = HashLen
    THEN Ok(Reverse(s[2]))
    ELSE Err([kind |-> "HexToArrayError"])

----------------------------------------------------------------------------
(* The PSET: global fields, inputs, outputs *)

\* elements::TxOut as stored in witness_utxo
TxOut(asset, value, spk) ==
    [asset |-> asset, value |-> value, nonce |-> "Null",
     script_pubkey |-> spk, witness |-> "empty"]

\* Sequence(0xffffffff), as its hex digits
MaxSequence == "ffffffff"

\* an input that already carries a witness_utxo when it is created
PsetInputWithUtxo(prevout, sequence) ==
    [previous_output |-> prevout, sequence |-> sequence,
     witness_utxo |-> Some(TxOut(<<"explicit", 0>>, <<"explicit", 0>>, <<>>)),
     final_script_witness |-> None,
     tap_internal_key |-> None, tap_merkle_root |-> None,
     tap_scripts |-> {}]

PsetInput(prevout, sequence) ==
    [previous_output |-> prevout, sequence |-> sequence,
     witness_utxo |-> None, final_script_witness |-> None,
     tap_internal_key |-> None, tap_merkle_root |-> None,
     tap_scripts |-> {}]

PsetOutput(spk, asset, amount) ==
    [script_pubkey |-> spk, asset |-> asset, amount |-> amount]

n_inputs(p) == Len(p.inputs)

\* PartiallySignedTransaction::to_string / from_str (base64 of the binary form)
PsetToString(p) == B64Str(p)
ParsePset(s) == IF s[1] = "b64" THEN Ok(s[2]) ELSE Err([kind |-> "ParseError"])

\* PartiallySignedTransaction::extract_tx: the transaction library builds the
\* raw transaction; an output without explicit asset or amount is an error,
\* and each input's final_script_witness becomes its witness stack
extract_tx(p) ==
    IF \E o \in 1..Len(p.outputs) :
           ~IsSome(p.outputs[o].asset) \/ ~IsSome(p.outputs[o].amount)
    THEN Err([kind |-> "PsetError"])
    ELSE Ok([version |-> p.global.version, lock_time |-> p.global.lock_time,
             input |-> [i \in 1..Len(p.inputs) |->
                          [previous_output |-> p.inputs[i].previous_output,
                           sequence |-> p.inputs[i].sequence,
                           script_witness |->
                             IF IsSome(p.inputs[i].final_script_witness)
                             THEN Unwrap(p.inputs[i].final_script_witness)
                             ELSE <<>>]],
             output |-> [o \in 1..Len(p.outputs) |->
                          TxOut(Unwrap(p.outputs[o].asset),
                                Unwrap(p.outputs[o].amount),
                                p.outputs[o].script_pubkey)]])

\* elements::encode::serialize_hex of a transaction
SerializeTxHex(tx) == <<"txhex", tx>>

----------------------------------------------------------------------------
(* execution_environment (pset/mod.rs) *)

\* a leaf test that looks at the script bytes only
IsSimplicityLeafAnyVersion(e, cmr) == e.script = CmrBytes(cmr)

\* a loop that keeps the first match instead of the last
RECURSIVE ScanTapScriptsFirst(_, _, _, _)
ScanTapScriptsFirst(tap_scripts, keys, cmr, found) ==
    IF keys = <<>> THEN found
    ELSE LET cb == Head(keys)
             e == CHOOSE x \in tap_scripts : x.cb = cb
         IN  IF e.ver = SimplicityLeafVersion /\ e.script = CmrBytes(cmr)
             THEN Some([cb |-> cb, leaf |-> e.script])
             ELSE ScanTapScriptsFirst(tap_scripts, Tail(keys), cmr, found)

\* a collect that passes over inputs without witness_utxo
RECURSIVE CollectUtxosSkipping(_, _, _)
CollectUtxosSkipping(inputs, n, acc) ==
    IF n >= Len(inputs) THEN Ok(acc)
    ELSE IF IsSome(inputs[n + 1].witness_utxo)
         THEN LET utxo == Unwrap(inputs[n + 1].witness_utxo)
              IN  CollectUtxosSkipping(inputs, n + 1,
                      Append(acc, [script_pubkey |-> utxo.script_pubkey,
                                   asset |-> utxo.asset, value |-> utxo.value]))
         ELSE CollectUtxosSkipping(inputs, n + 1, acc)

\* the error with its two numbers exchanged
InputIndexOutOfRangeSwapped(index, total) ==
    [kind |-> "InputIndexOutOfRange", index |-> total, total |-> index]

\* the loop over input.tap_scripts: entries are visited in ascending
\* control-block order and every match overwrites the previous one
\* script_ver.1 == simplicity::leaf_version() && &script_ver.0[..] == cmr.as_ref()
IsSimplicityLeaf(e, cmr) == e.ver = SimplicityLeafVersion /\ e.script = CmrBytes(cmr)

RECURSIVE ScanTapScripts(_, _, _, _)
ScanTapScripts(tap_scripts, keys, cmr, found) ==
    IF keys = <<>> THEN found
    ELSE LET cb == Head(keys)
             e == CHOOSE x \in tap_scripts : x.cb = cb
         IN  ScanTapScripts(tap_scripts, Tail(keys), cmr,
                 IF IsSimplicityLeaf(e, cmr)
                 THEN Some([cb |-> cb, leaf |-> e.script])
                 ELSE found)

FindLeaf(tap_scripts, cmr) ==
    ScanTapScripts(tap_scripts, SortedKeys({e.cb : e \in tap_scripts}), cmr, None)

\* the input_utxos collect(): stops at the first input without witness_utxo
RECURSIVE CollectUtxos(_, _, _)
CollectUtxos(inputs, n, acc) ==
    IF n >= Len(inputs) THEN Ok(acc)
    ELSE IF IsSome(inputs[n + 1].witness_utxo)
         THEN LET utxo == Unwrap(inputs[n + 1].witness_utxo)
              IN  CollectUtxos(inputs, n + 1,
                      Append(acc, [script_pubkey |-> utxo.script_pubkey,
                                   asset |-> utxo.asset, value |-> utxo.value]))
         ELSE Err([kind |-> "MissingWitnessUtxo", index |-> n])

\* ElementsEnv::new
ElementsEnv(tx, utxos, ix, cmr, control_block, annex, genesis_hash) ==
    [tx |-> tx, utxos |-> utxos, ix |-> ix, script_cmr |-> cmr,
     control_block |-> control_block, annex |-> annex,
     genesis_hash |-> genesis_hash]

\* PsetError::InputIndexOutOfRange { index, total }
InputIndexOutOfRange(index, total) ==
    [kind |-> "InputIndexOutOfRange", index |-> index, total |-> total]

\* execution_environment from the leaf lookup on
EnvironmentOfInput(p, input_idx, cmr, genesis_hash) ==
    LET input == p.inputs[input_idx + 1]
        control_block_leaf == FindLeaf(input.tap_scripts, cmr)
    IN
    IF ~IsSome(control_block_leaf)
    THEN Err([kind |-> "MissingSimplicityLeaf", cmr |-> CmrToString(cmr)])
    ELSE
    LET tx == extract_tx(p) IN
    IF ~tx.ok THEN Err([kind |-> "PsetExtract"])
    ELSE
    LET input_utxos == CollectUtxos(p.inputs, 0, <<>>) IN
    IF ~input_utxos.ok THEN input_utxos
    ELSE
    LET found == Unwrap(control_block_leaf) IN
    Ok([tx_env |-> ElementsEnv(tx.val, input_utxos.val, input_idx, cmr,
                               found.cb, None, genesis_hash),
        control_block |-> found.cb,
        tap_leaf |-> found.leaf])

\* the genesis hash read before the index is looked at
execution_environmentGenesisFirst(p, input_idx, cmr, genesis_hash) ==
    LET gh == IF IsSome(genesis_hash) THEN ParseBlockHash(Unwrap(genesis_hash))
              ELSE Ok(DefaultGenesisHash)
    IN
    IF ~gh.ok THEN Err([kind |-> "GenesisHashParse"])
    ELSE IF input_idx >= n_inputs(p)
    THEN Err(InputIndexOutOfRange(input_idx, n_inputs(p)))
    ELSE EnvironmentOfInput(p, input_idx, cmr, gh.val)

execution_environment(p, input_idx, cmr, genesis_hash) ==
    IF input_idx >= n_inputs(p)
    THEN Err(InputIndexOutOfRange(input_idx, n_inputs(p)))
    ELSE
    LET gh == IF IsSome(genesis_hash) THEN ParseBlockHash(Unwrap(genesis_hash))
              ELSE Ok(DefaultGenesisHash)
    IN
    IF ~gh.ok THEN Err([kind |-> "GenesisHashParse"])
    ELSE EnvironmentOfInput(p, input_idx, cmr, gh.val)

----------------------------------------------------------------------------
(* Programs (hal_simplicity.rs) and the Simplicity engine at its boundary  *)

\* a jet call of a program: its name, the word buffers the machine hands to
\* the tracker, and whether the jet needs an accepting witness to succeed
Jet(name, input, output, guarded) ==
    [name |-> name, input |-> input, output |-> output, guarded |-> guarded]

\* a program: its CMR, the jets it calls in order, and whether it exceeds
\* the bit machine's resource limits
Program(cmr, jets, oversized) == [cmr |-> cmr, jets |-> jets, oversized |-> oversized]

ProgStr(prog) == <<"prog", prog>>
WitStr(w) == <<"wit", w>>

\* Program::from_str: the commit node is decoded from the program alone; the
\* redeem node exists exactly when a witness was passed and decodes with it
ProgramFromStr(prog_b64, wit_hex) ==
    IF prog_b64[1] # "prog" THEN Err([kind |-> "ParseError"])
    ELSE IF ~IsSome(wit_hex)
         THEN Ok([commit_prog |-> prog_b64[2], redeem_prog |-> None])
         ELSE IF Unwrap(wit_hex)[1] # "wit" \/ Unwrap(wit_hex)[2] = "malformed"
              THEN Err([kind |-> "ParseError"])
              ELSE Ok([commit_prog |-> prog_b64[2],
                       redeem_prog |-> Some([prog |-> prog_b64[2],
                                             witness |-> Unwrap(wit_hex)[2]])])

ProgramCmr(program) == program.commit_prog.cmr
redeem_node(program) == program.redeem_prog

\* whether a jet call succeeds in this run
JetSucceeds(jet, redeem) == ~jet.guarded \/ redeem.witness = "accept"

\* the jet calls the machine makes, in call order: it stops at the first
\* failing jet, after reporting that call to the tracker
RECURSIVE JetCalls(_, _)
JetCalls(jets, redeem) ==
    IF jets = <<>> THEN <<>>
    ELSE IF JetSucceeds(Head(jets), redeem)
         THEN <<[jet |-> Head(jets), success |-> TRUE]>> \o JetCalls(Tail(jets), redeem)
         ELSE <<[jet |-> Head(jets), success |-> FALSE]>>

\* the run completes iff no jet fails and the witness is accepted
ExecOk(redeem, tx_env) ==
    /\ redeem.witness = "accept"
    /\ \A i \in 1..Len(redeem.prog.jets) : JetSucceeds(redeem.prog.jets[i], redeem)

\* RedeemNode::prune followed by to_vec_with_witness: runs the program in the
\* environment and re-encodes what was reached
Prune(redeem, tx_env) ==
    IF ExecOk(redeem, tx_env)
    THEN Ok([prog |-> <<"pruned", redeem.prog.cmr, Len(redeem.prog.jets)>>,
             witness |-> <<"witness", redeem.witness>>])
    ELSE Err([kind |-> "ExecutionError"])

----------------------------------------------------------------------------
(* pset_finalize (pset/finalize.rs) *)

\* a stack with the program before the witness
FinalWitnessProgramFirst(witness, prog, tap_leaf, cb_serialized) ==
    <<prog, witness, tap_leaf, cb_serialized>>

\* a write that also drops the leaf map of the input it finalizes
SetFinalScriptWitnessClearingLeaves(p, idx, stack) ==
    [p EXCEPT !.inputs[idx + 1].final_script_witness = Some(stack),
              !.inputs[idx + 1].tap_scripts = {}]

FinalWitness(witness, prog, tap_leaf, cb_serialized) ==
    <<witness, prog, tap_leaf, cb_serialized>>

SetFinalScriptWitness(p, idx, stack) ==
    [p EXCEPT !.inputs[idx + 1].final_script_witness = Some(stack)]

pset_finalize(pset_b64, input_idx, program, witness, genesis_hash) ==
    LET parsed == ParsePset(pset_b64) IN
    IF ~parsed.ok THEN Returned(Err([kind |-> "PsetDecode"]), None)
    ELSE
    LET p == parsed.val
        idx == ParseInt(input_idx)
    IN
    IF ~idx.ok THEN Returned(Err([kind |-> "InputIndexParse"]), Some(p))
    ELSE
    LET prog == ProgramFromStr(program, Some(witness)) IN
    IF ~prog.ok THEN Returned(Err([kind |-> "ProgramParse"]), Some(p))
    ELSE
    LET env == execution_environment(p, idx.val, ProgramCmr(prog.val), genesis_hash) IN
    IF ~env.ok THEN Returned(env, Some(p))
    ELSE
    LET cb_serialized == SerializeControlBlock(env.val.control_block) IN
    IF ~IsSome(redeem_node(prog.val))
    THEN Returned(Err([kind |-> "NoRedeemNode"]), Some(p))
    ELSE
    LET pruned == Prune(Unwrap(redeem_node(prog.val)), env.val.tx_env) IN
    IF ~pruned.ok THEN Returned(Err([kind |-> "ProgramPrune"]), Some(p))
    ELSE
    LET q == SetFinalScriptWitness(p, idx.val,
                 FinalWitness(pruned.val.witness, pruned.val.prog,
                              env.val.tap_leaf, cb_serialized))
    IN  Returned(Ok([pset |-> PsetToString(q),
                     updated_values |-> <<"final_script_witness">>]),
                 Some(q))

----------------------------------------------------------------------------
(* pset_extract (pset/extract.rs) *)

pset_extract(pset_b64) ==
    LET parsed == ParsePset(pset_b64) IN
    IF ~parsed.ok THEN Returned(Err([kind |-> "PsetDecode"]), None)
    ELSE
    LET tx == extract_tx(parsed.val) IN
    IF ~tx.ok THEN Returned(Err([kind |-> "TransactionExtract"]), Some(parsed.val))
    ELSE Returned(Ok(SerializeTxHex(tx.val)), Some(parsed.val))

----------------------------------------------------------------------------
(* pset_run and its JetTracker (pset/run.rs) *)

\* bytes of a UWORD (uint_fast16_t in its narrowest form)
WordBytes == 2

HexDigits == <<"0", "1", "2", "3", "4", "5", "6", "7",
               "8", "9", "a", "b", "c", "d", "e", "f">>

\* format!("{:02x}", byte)
ByteHex(byte) == <<HexDigits[(byte \div 16) + 1], HexDigits[(byte % 16) + 1]>>

RECURSIVE Pow256(_)
Pow256(k) == IF k = 0 THEN 1 ELSE 256 * Pow256(k - 1)

\* word.to_be_bytes()
to_be_bytes(word) ==
    [k \in 1..WordBytes |-> (word \div Pow256(WordBytes - k)) % 256]

RECURSIVE BytesHex(_)
BytesHex(bytes) ==
    IF bytes = <<>> THEN <<>> ELSE ByteHex(Head(bytes)) \o BytesHex(Tail(bytes))

\* the words taken first to last
RECURSIVE BufferHexForward(_)
BufferHexForward(buffer) ==
    IF buffer = <<>> THEN <<>>
    ELSE BytesHex(to_be_bytes(Head(buffer))) \o BufferHexForward(Tail(buffer))

\* for word in buffer.iter().rev() { for byte in word.to_be_bytes() { push } }
RECURSIVE BufferHex(_)
BufferHex(buffer) ==
    IF buffer = <<>> THEN <<>>
    ELSE BytesHex(to_be_bytes(buffer[Len(buffer)]))
             \o BufferHex(SubSeq(buffer, 1, Len(buffer) - 1))

\* x.strip_prefix("eq_").is_some()
HasEqPrefix(name) == Len(name) >= 3 /\ SubSeq(name, 1, 3) = <<"e", "q", "_">>

\* a match without the "eq_1" and "eq_2" arms
EqualityCheckEveryEq(jet_name, input_hex) ==
    IF HasEqPrefix(jet_name)
    THEN Some(<<SubSeq(input_hex, 1, Len(input_hex) \div 2),
                SubSeq(input_hex, (Len(input_hex) \div 2) + 1, Len(input_hex))>>)
    ELSE None

\* input_hex.split_at(input_hex.len() / 2)
EqualityCheck(jet_name, input_hex) ==
    IF jet_name = <<"e", "q", "_", "1">> THEN None
    ELSE IF jet_name = <<"e", "q", "_", "2">> THEN None
    ELSE IF HasEqPrefix(jet_name)
         THEN Some(<<SubSeq(input_hex, 1, Len(input_hex) \div 2),
                     SubSeq(input_hex, (Len(input_hex) \div 2) + 1, Len(input_hex))>>)
         ELSE None

\* JetTracker::track_jet_call: appends one JetCall to the tracker's list
\* a tracker that keeps the last call only
track_jet_callKeepingLast(tracker, jet, input_buffer, output_buffer, success) ==
    <<[jet |-> jet.name, success |-> success,
       input_hex |-> BufferHex(input_buffer), output_hex |-> BufferHex(output_buffer),
       equality_check |-> EqualityCheck(jet.name, BufferHex(input_buffer))]>>

track_jet_call(tracker, jet, input_buffer, output_buffer, success) ==
    LET input_hex == BufferHex(input_buffer)
        output_hex == BufferHex(output_buffer)
    IN  Append(tracker,
               [jet |-> jet.name, success |-> success,
                input_hex |-> input_hex, output_hex |-> output_hex,
                equality_check |-> EqualityCheck(jet.name, input_hex)])

\* BitMachine::for_program
BitMachineForProgram(redeem) ==
    IF redeem.prog.oversized THEN Err([kind |-> "LimitError"]) ELSE Ok(redeem)

\* exec_with_tracker: the tracker is called once per jet call, in order
RECURSIVE TrackAll(_, _)
TrackAll(tracker, calls) ==
    IF calls = <<>> THEN tracker
    ELSE TrackAll(track_jet_call(tracker, Head(calls).jet, Head(calls).jet.input,
                                 Head(calls).jet.output, Head(calls).success),
                  Tail(calls))

pset_run(pset_b64, input_idx, program, witness, genesis_hash) ==
    LET parsed == ParsePset(pset_b64) IN
    IF ~parsed.ok THEN Returned(Err([kind |-> "PsetDecode"]), None)
    ELSE
    LET p == parsed.val
        idx == ParseInt(input_idx)
    IN
    IF ~idx.ok THEN Returned(Err([kind |-> "InputIndexParse"]), Some(p))
    ELSE
    LET prog == ProgramFromStr(program, Some(witness)) IN
    IF ~prog.ok THEN Returned(Err([kind |-> "ProgramParse"]), Some(p))
    ELSE
    LET env == execution_environment(p, idx.val, ProgramCmr(prog.val), genesis_hash) IN
    IF ~env.ok THEN Returned(env, Some(p))
    ELSE IF ~IsSome(redeem_node(prog.val))
    THEN Returned(Err([kind |-> "NoRedeemNode"]), Some(p))
    ELSE
    LET redeem == Unwrap(redeem_node(prog.val))
        mac == BitMachineForProgram(redeem)
    IN
    IF ~mac.ok THEN Returned(Err([kind |-> "BitMachineConstruction"]), Some(p))
    ELSE Returned(Ok([success |-> ExecOk(redeem, env.val.tx_env),
                      jets |-> TrackAll(<<>>, JetCalls(redeem.prog.jets, redeem))]),
                  Some(p))

----------------------------------------------------------------------------
(* Keys and signatures (secp256k1 at its boundary) *)

SecretKeys == {1, 2}
\* Keypair::x_only_public_key
XOnlyPublicKeyOf(sk) == 10 + sk

SkStr(sk) == <<"sk", sk>>
PkStr(pk) == <<"pk", pk>>
SigStr(sig) == <<"sig", sig>>

ParseSecretKey(s) == IF s[1] = "sk" THEN Ok(s[2]) ELSE Err([kind |-> "secp256k1"])
ParsePublicKey(s) == IF s[1] = "pk" THEN Ok(s[2]) ELSE Err([kind |-> "secp256k1"])
ParseSignature(s) == IF s[1] = "sig" THEN Ok(s[2]) ELSE Err([kind |-> "secp256k1"])

\* a verification that accepts every signature
verify_schnorrAlways(sig, msg, pk) == TRUE

\* a signing of some other message
sign_schnorrOther(msg, sk, aux) ==
    [pk |-> XOnlyPublicKeyOf(sk), msg |-> <<"other">>, aux |-> aux]

\* sign_schnorr draws auxiliary randomness; the signature binds key and message
sign_schnorr(msg, sk, aux) == [pk |-> XOnlyPublicKeyOf(sk), msg |-> msg, aux |-> aux]
verify_schnorr(sig, msg, pk) == sig.pk = pk /\ sig.msg = msg

----------------------------------------------------------------------------
(* simplicity_sighash (sighash.rs) *)

\* a raw transaction as hex
TxHexStr(tx) == <<"txhex", tx>>
\* Vec::from_hex then elements::encode::deserialize
ParseTxHex(s) ==
    IF s[1] = "txhex" THEN Ok(s[2])
    ELSE IF s[1] = "hex" THEN Err([kind |-> "TransactionDecoding"])
    ELSE Err([kind |-> "TransactionHexParsing"])

CbStr(cb) == <<"cbhex", cb>>
\* Vec::from_hex then ControlBlock::from_slice
ParseControlBlock(s) ==
    IF s[1] = "cbhex" THEN Ok(s[2])
    ELSE IF s[1] = "hex" THEN Err([kind |-> "ControlBlockDecoding"])
    ELSE Err([kind |-> "ControlBlockHexParsing"])

----------------------------------------------------------------------------
(* UTXO strings (simplicity/mod.rs):                                       *)
(*   <scriptPubKey hex>:<asset id or commitment hex>:<BTC amount or        *)
(*   commitment hex>.  Such a string is the sequence of its characters; a  *)
(*   script is the sequence of its bytes.                                  *)

ElementsUtxo(spk, asset, value) == [script_pubkey |-> spk, asset |-> asset, value |-> value]

\* the value of each digit of the alphabet
HexValue == [c \in {HexDigits[d] : d \in 1..16} |->
                (CHOOSE d \in 1..16 : HexDigits[d] = c) - 1]

IsHexChar(c) == c \in DOMAIN HexValue
IsDecChar(c) == c \in DOMAIN HexValue /\ HexValue[c] < 10
DigitVal(c) == HexValue[c]

\* Vec::from_hex / FromHex on the lower-case alphabet
FromHex(s) ==
    IF Len(s) % 2 # 0 \/ \E i \in 1..Len(s) : ~IsHexChar(s[i])
    THEN Err([kind |-> "HexError"])
    ELSE Ok([k \in 1..(Len(s) \div 2) |->
                16 * DigitVal(s[2 * k - 1]) + DigitVal(s[2 * k])])

\* s.split(':').collect(): the pieces between the colons, in order
SplitColon(s) ==
    LET colons == {i \in 1..Len(s) : s[i] = ":"}
        \* the position of the k-th colon; the ends of the string stand in
        \* for a 0th and a last one
        at(k) == IF k = 0 THEN 0
                 ELSE IF k > Cardinality(colons) THEN Len(s) + 1
                 ELSE CHOOSE i \in colons : Cardinality({j \in colons : j < i}) = k - 1
    IN  [k \in 1..(Cardinality(colons) + 1) |-> SubSeq(s, at(k - 1) + 1, at(k) - 1)]

\* an explicit asset id is 32 bytes, 64 hex characters
AssetIdLen == 32
\* a commitment is a 33-byte compressed point
CommitmentLen == 33
AssetCommitmentTags == {10, 11}
ValueCommitmentTags == {8, 9}

\* str::parse::<AssetId>: 32 bytes, displayed byte-reversed
ParseAssetId(s) ==
    LET bytes == FromHex(s) IN
    IF bytes.ok /\ Len(bytes.val) = AssetIdLen THEN Ok(Reverse(bytes.val))
    ELSE Err([kind |-> "AssetHexParsing"])

\* confidential::Asset::from_commitment
AssetFromCommitment(bytes) ==
    IF Len(bytes) = CommitmentLen /\ bytes[1] \in AssetCommitmentTags
    THEN Ok(<<"confidential", bytes>>)
    ELSE Err([kind |-> "AssetCommitmentDecoding"])

\* confidential::Value::from_commitment
ValueFromCommitment(bytes) ==
    IF Len(bytes) = CommitmentLen /\ bytes[1] \in ValueCommitmentTags
    THEN Ok(<<"confidential", bytes>>)
    ELSE Err([kind |-> "ValueCommitmentDecoding"])

RECURSIVE Pow10(_)
Pow10(k) == IF k = 0 THEN 1 ELSE 10 * Pow10(k - 1)

RECURSIVE DecVal(_)
DecVal(s) ==
    IF s = <<>> THEN 0
    ELSE 10 * DecVal(SubSeq(s, 1, Len(s) - 1)) + DigitVal(s[Len(s)])

\* the decimal places of a BTC amount
BtcPrecision == 8
\* the digits before the point that an amount may have (u64 satoshis,
\* narrowed to what TLC's integers hold)
BtcIntDigits == 1

\* an amount read as a count of satoshis
ParseAmountSat(s) ==
    IF s = <<>> \/ \E i \in 1..Len(s) : ~IsDecChar(s[i]) \/ Len(s) > BtcPrecision
    THEN Err([kind |-> "ParseAmountError"])
    ELSE Ok(DecVal(s))

\* Amount::from_str_in(s, Denomination::Bitcoin): decimal digits, at most
\* eight of them after the point; the result is in satoshis
ParseAmountBtc(s) ==
    LET dots == {i \in 1..Len(s) : s[i] = "."}
        dot == IF dots = {} THEN Len(s) + 1 ELSE CHOOSE i \in dots : TRUE
        int == SubSeq(s, 1, dot - 1)
        frac == SubSeq(s, dot + 1, Len(s))
    IN
    IF \/ Cardinality(dots) > 1
       \/ \E i \in 1..Len(s) : ~(IsDecChar(s[i]) \/ s[i] = ".")
       \/ Len(int) + Len(frac) = 0
       \/ Len(frac) > BtcPrecision
       \/ Len(int) > BtcIntDigits
    THEN Err([kind |-> "ParseAmountError"])
    ELSE Ok(DecVal(int) * Pow10(BtcPrecision)
              + DecVal(frac) * Pow10(BtcPrecision - Len(frac)))

\* lines 46-58: the asset field
ParseUtxoAsset(part) ==
    IF Len(part) = 2 * AssetIdLen
    THEN LET asset_id == ParseAssetId(part) IN
         IF asset_id.ok THEN Ok(<<"explicit", asset_id.val>>) ELSE asset_id
    ELSE LET commitment_bytes == FromHex(part) IN
         IF ~commitment_bytes.ok THEN Err([kind |-> "AssetCommitmentHexParsing"])
         ELSE AssetFromCommitment(commitment_bytes.val)

\* lines 60-70: the value field, as a BTC amount first
ParseUtxoValue(part) ==
    LET btc_amount == ParseAmountBtc(part) IN
    IF btc_amount.ok THEN Ok(<<"explicit", btc_amount.val>>)
    ELSE LET commitment_bytes == FromHex(part) IN
         IF ~commitment_bytes.ok THEN Err([kind |-> "ValueCommitmentHexParsing"])
         ELSE ValueFromCommitment(commitment_bytes.val)

\* parse_elements_utxo
parse_elements_utxo(s) ==
    LET parts == SplitColon(s) IN
    IF Len(parts) # 3 THEN Err([kind |-> "InvalidFormat"])
    ELSE
    LET script_pubkey == FromHex(parts[1]) IN
    IF ~script_pubkey.ok THEN Err([kind |-> "ScriptPubKeyParsing"])
    ELSE
    LET asset == ParseUtxoAsset(parts[2]) IN
    IF ~asset.ok THEN asset
    ELSE
    LET value == ParseUtxoValue(parts[3]) IN
    IF ~value.ok THEN value
    ELSE Ok(ElementsUtxo(script_pubkey.val, asset.val, value.val))

\* the digits of a number, and the same padded to a width
RECURSIVE DecDigitsOf(_)
DecDigitsOf(n) ==
    IF n < 10 THEN <<HexDigits[n + 1]>>
    ELSE Append(DecDigitsOf(n \div 10), HexDigits[(n % 10) + 1])

FixedDigits(n, width) ==
    [i \in 1..width |-> HexDigits[((n \div Pow10(width - i)) % 10) + 1]]

\* the string of a UTXO: the script as hex, an explicit asset as its id and
\* an explicit value as a BTC amount with eight decimals, a commitment as
\* the hex of its bytes
AssetStr(asset) ==
    IF asset[1] = "explicit" THEN BytesHex(Reverse(asset[2])) ELSE BytesHex(asset[2])

ValueStr(value) ==
    IF value[1] = "explicit"
    THEN DecDigitsOf(value[2] \div Pow10(BtcPrecision)) \o <<".">>
             \o FixedDigits(value[2] % Pow10(BtcPrecision), BtcPrecision)
    ELSE BytesHex(value[2])

UtxoStr(utxo) ==
    BytesHex(utxo.script_pubkey) \o <<":">> \o AssetStr(utxo.asset)
        \o <<":">> \o ValueStr(utxo.value)

----------------------------------------------------------------------------
(* simplicity_sighash, continued *)

\* the explicit input_utxos: parsed in order, the first failure ends the call
RECURSIVE ParseUtxos(_, _)
ParseUtxos(strs, acc) ==
    IF strs = <<>> THEN Ok(acc)
    ELSE LET u == parse_elements_utxo(Head(strs)) IN
         IF u.ok THEN ParseUtxos(Tail(strs), Append(acc, u.val))
         ELSE Err([kind |-> "InputUtxoParsing"])

\* the PSET-derived input_utxos
RECURSIVE WitnessUtxos(_, _, _)
WitnessUtxos(inputs, n, acc) ==
    IF n >= Len(inputs) THEN Ok(acc)
    ELSE IF IsSome(inputs[n + 1].witness_utxo)
         THEN LET utxo == Unwrap(inputs[n + 1].witness_utxo)
              IN  WitnessUtxos(inputs, n + 1,
                      Append(acc, ElementsUtxo(utxo.script_pubkey, utxo.asset, utxo.value)))
         ELSE Err([kind |-> "WitnessUtxoMissing", input |-> n])

\* the control-block lookup loop of simplicity_sighash
RECURSIVE ScanControlBlock(_, _, _, _)
ScanControlBlock(tap_scripts, keys, cmr, found) ==
    IF keys = <<>> THEN found
    ELSE LET cb == Head(keys)
             e == CHOOSE x \in tap_scripts : x.cb = cb
         IN  ScanControlBlock(tap_scripts, Tail(keys), cmr,
                 IF IsSimplicityLeaf(e, cmr)
                 THEN Some(cb)
                 ELSE found)

\* tx_env.c_tx_env().sighash_all(): a digest of the genesis hash, the
\* transaction with its input UTXOs, the tap environment and the input index
sighash_all(env) ==
    <<"sha256", env.genesis_hash, env.tx, env.utxos, env.script_cmr,
      env.control_block, env.ix>>

SighashControlBlock(parsed, input_idx, cmr, control_block) ==
    IF IsSome(control_block)
    THEN LET cb == ParseControlBlock(Unwrap(control_block)) IN
         IF cb.ok THEN cb ELSE Err([kind |-> cb.err.kind])
    ELSE IF parsed.ok
    THEN IF input_idx >= n_inputs(parsed.val)
         THEN Err([kind |-> "InputIndexOutOfRange", index |-> input_idx,
                   n_inputs |-> n_inputs(parsed.val)])
         ELSE LET ts == parsed.val.inputs[input_idx + 1].tap_scripts
                  found == ScanControlBlock(ts, SortedKeys({e.cb : e \in ts}), cmr, None)
              IN  IF IsSome(found) THEN Ok(Unwrap(found))
                  ELSE Err([kind |-> "ControlBlockNotFound", cmr |-> CmrToString(cmr)])
    ELSE Err([kind |-> "ControlBlockRequired"])

\* input_utxos that are never taken from the PSET
SighashInputUtxosSuppliedOnly(parsed, input_utxos) ==
    IF IsSome(input_utxos) THEN ParseUtxos(Unwrap(input_utxos), <<>>)
    ELSE Err([kind |-> "InputUtxosRequired"])

SighashInputUtxos(parsed, input_utxos) ==
    IF IsSome(input_utxos) THEN ParseUtxos(Unwrap(input_utxos), <<>>)
    ELSE IF parsed.ok THEN WitnessUtxos(parsed.val.inputs, 0, <<>>)
    ELSE Err([kind |-> "InputUtxosRequired"])

\* (None, Some(_)) => return Err(SignatureWithoutPublicKey)
\* a match without the (None, Some(_)) arm
SignatureWithoutPublicKeyAllowed(public_key, signature) == FALSE

\* a key check that accepts any pair
PublicKeyMismatchIgnored(pk, sk) == FALSE

SignatureWithoutPublicKey(public_key, signature) ==
    ~IsSome(public_key) /\ IsSome(signature)

\* pk != &keypair.x_only_public_key().0
PublicKeyMismatch(pk, sk) == pk # XOnlyPublicKeyOf(sk)

\* lines 227-269: the key and signature arguments, then the result
SighashKeys(tx_env, secret_key, public_key, signature, aux) ==
    LET pk == IF IsSome(public_key) THEN ParsePublicKey(Unwrap(public_key)) ELSE Ok(0)
        sig == IF IsSome(signature) THEN ParseSignature(Unwrap(signature)) ELSE Ok(0)
    IN
    IF IsSome(public_key) /\ ~pk.ok THEN Err([kind |-> "PublicKeyParsing"])
    ELSE IF IsSome(public_key) /\ IsSome(signature) /\ ~sig.ok
    THEN Err([kind |-> "SignatureParsing"])
    ELSE IF SignatureWithoutPublicKey(public_key, signature)
    THEN Err([kind |-> "SignatureWithoutPublicKey"])
    ELSE
    LET sighash == sighash_all(tx_env)
        sk == IF IsSome(secret_key) THEN ParseSecretKey(Unwrap(secret_key)) ELSE Ok(0)
    IN
    IF IsSome(secret_key) /\ ~sk.ok THEN Err([kind |-> "SecretKeyParsing"])
    ELSE IF IsSome(secret_key) /\ IsSome(public_key) /\ PublicKeyMismatch(pk.val, sk.val)
    THEN Err([kind |-> "PublicKeyMismatch",
              derived |-> PkStr(XOnlyPublicKeyOf(sk.val)),
              provided |-> PkStr(pk.val)])
    ELSE Ok([sighash |-> sighash,
             signature |-> IF IsSome(secret_key)
                           THEN Some(sign_schnorr(sighash, sk.val, aux))
                           ELSE None,
             valid_signature |-> IF IsSome(public_key) /\ IsSome(signature)
                                 THEN Some(verify_schnorr(sig.val, sighash, pk.val))
                                 ELSE None])

\* lines 117-225: the transaction, the control block, the input UTXOs and the
\* genesis hash, assembled into the environment
SighashEnv(tx_hex, input_idx, cmr, control_block, genesis_hash, input_utxos) ==
    LET parsed == ParsePset(tx_hex)
        tx == IF parsed.ok THEN extract_tx(parsed.val) ELSE ParseTxHex(tx_hex)
    IN
    IF ~tx.ok
    THEN Err([kind |-> IF parsed.ok THEN "PsetExtraction" ELSE tx.err.kind])
    ELSE
    LET idx == ParseInt(input_idx) IN
    IF ~idx.ok THEN Err([kind |-> "InputIndexParsing"])
    ELSE
    LET c == ParseCmr(cmr) IN
    IF ~c.ok THEN Err([kind |-> "CmrParsing"])
    ELSE
    LET cb == SighashControlBlock(parsed, idx.val, c.val, control_block) IN
    IF ~cb.ok THEN cb
    ELSE
    LET utxos == SighashInputUtxos(parsed, input_utxos) IN
    IF ~utxos.ok THEN utxos
    ELSE IF Len(utxos.val) # Len(tx.val.input)
    THEN Err([kind |-> "InputUtxoCountMismatch",
              expected |-> Len(tx.val.input), actual |-> Len(utxos.val)])
    ELSE
    LET gh == IF IsSome(genesis_hash) THEN ParseBlockHash(Unwrap(genesis_hash))
              ELSE Ok(SighashDefaultGenesisHash)
    IN
    IF ~gh.ok THEN Err([kind |-> "GenesisHashParsing"])
    ELSE Ok(ElementsEnv(tx.val, utxos.val, idx.val, c.val, cb.val, None, gh.val))

\* the genesis hash the daemon's sighash handler resolves
DaemonSighashGenesisHash(genesis_hash) ==
    IF IsSome(genesis_hash)
    THEN LET gh == ParseBlockHash(Unwrap(genesis_hash)) IN
         IF gh.ok THEN gh ELSE Err([kind |-> "GenesisHashParsing"])
    ELSE Ok(DaemonSighashDefaultGenesisHash)

\* simplicity_sighash from the point where the environment is built or an
\* error has ended the call
SighashWithEnv(tx_hex, tx_env, secret_key, public_key, signature, aux) ==
    LET parsed == ParsePset(tx_hex)
        mine == IF parsed.ok THEN Some(parsed.val) ELSE None
    IN
    IF ~tx_env.ok THEN Returned(tx_env, mine)
    ELSE Returned(SighashKeys(tx_env.val, secret_key, public_key, signature, aux), mine)

simplicity_sighash(tx_hex, input_idx, cmr, control_block, genesis_hash, secret_key, public_key, signature, input_utxos, aux) ==
    SighashWithEnv(tx_hex, SighashEnv(tx_hex, input_idx, cmr, control_block, genesis_hash, input_utxos), secret_key, public_key, signature, aux)

\* a panic: the thread unwinds and the caller is returned nothing
Panic(message) == [ok |-> FALSE, err |-> [kind |-> "panic", message |-> message]]

\* exec_inner of the client's sighash command (cmd/simplicity/sighash.rs): the
\* steps of simplicity_sighash in the same order, each error returned with
\* its context, except that the number of input UTXOs is asserted
exec_inner(tx_hex, input_idx, cmr, control_block, genesis_hash, secret_key, public_key, signature, input_utxos, aux) ==
    LET tx_env == SighashEnv(tx_hex, input_idx, cmr, control_block, genesis_hash, input_utxos) IN
    IF ~tx_env.ok /\ tx_env.err.kind = "InputUtxoCountMismatch"
    THEN Panic("assert_eq!(input_utxos.len(), tx.input.len())")
    ELSE SighashWithEnv(tx_hex, tx_env, secret_key, public_key, signature, aux).res

----------------------------------------------------------------------------
(* Taproot (hal_simplicity.rs): a tap tree whose only leaf is the CMR *)

\* an x-only key in a script, narrowed from 32 bytes
XOnlyKeyLen == 4
OP_PUSHNUM_1 == 81
OP_PUSHBYTES_0 == 0
OP_RETURN == 106

P2tr(output_key) == <<OP_PUSHNUM_1, Len(output_key)>> \o output_key
\* a version-0 witness program
NonTaprootScript == <<OP_PUSHBYTES_0, 2, 1, 1>>
\* Script::is_v1_p2tr
is_v1_p2tr(spk) ==
    Len(spk) = 2 + XOnlyKeyLen /\ spk[1] = OP_PUSHNUM_1 /\ spk[2] = XOnlyKeyLen
\* script_pubkey[2..]: the bytes after OP_1 and the push opcode
WitnessProgram(spk) == SubSeq(spk, 3, Len(spk))

\* the tap tree's Merkle root: the leaf hash, joined with the state
\* commitment when there is one
MerkleRoot(cmr, state) == <<"root", script_ver(cmr), state>>
\* the tweaked output key and its parity
\* (the serialized key: bytes that the internal key, the leaf and the state
\* determine and that determine them)
OutputKey(internal_key, cmr, state) ==
    <<internal_key, script_ver(cmr)[1][1], script_ver(cmr)[2],
      IF IsSome(state) THEN Unwrap(state)[1] ELSE 0>>
OutputKeyParity(internal_key, cmr, state) == (internal_key + cmr) % 2

taproot_spend_info(internal_key, state, cmr) ==
    [internal_key |-> internal_key,
     merkle_root |-> Some(MerkleRoot(cmr, state)),
     output_key |-> OutputKey(internal_key, cmr, state),
     script_map |-> {script_ver(cmr)},
     control_block |->
         ControlBlock(SimplicityLeafVersion, OutputKeyParity(internal_key, cmr, state),
                      internal_key, IF IsSome(state) THEN <<Unwrap(state)>> ELSE <<>>)]

IkStr(k) == <<"xonly", k>>
ParseInternalKey(s) == IF s[1] = "xonly" THEN Ok(s[2]) ELSE Err([kind |-> "secp256k1"])

\* <[u8; 32]>::from_hex of the state commitment
ParseState(s) == IF s[1] = "hex" /\ Len(s[2]) = HashLen THEN Ok(s[2])
                 ELSE Err([kind |-> "HexToArrayError"])

----------------------------------------------------------------------------
(* pset_update_input (pset/update_input.rs) *)

\* Option<&str>.map(parse).transpose()
Transpose(arg, parsed) ==
    IF IsSome(arg)
    THEN IF parsed.ok THEN Ok(Some(parsed.val)) ELSE parsed
    ELSE Ok(None)

\* lines 102-145: the writes to the addressed input and the names reported
\* a wrong output key that is let through
OutputKeyMismatchIgnored(spend_info, input_utxo) == FALSE

\* spend_info.output_key().as_inner().serialize() != input_utxo.script_pubkey[2..]
OutputKeyMismatch(spend_info, input_utxo) ==
    spend_info.output_key # WitnessProgram(input_utxo.script_pubkey)

\* the leaf inserted into the map the input already has
ReplaceTapScriptsKeepingOld(tap_scripts, cb, leaf) ==
    {e \in tap_scripts : e.cb # cb} \cup {[cb |-> cb, script |-> leaf[1], ver |-> leaf[2]]}

\* input.tap_scripts = BTreeMap::new(); input.tap_scripts.insert(cb, script_ver.clone())
ReplaceTapScripts(tap_scripts, cb, leaf) ==
    {[cb |-> cb, script |-> leaf[1], ver |-> leaf[2]]}

UpdateInputFields(p, idx, input_utxo, internal_key, cmr, state) ==
    LET with_key ==
            IF IsSome(internal_key)
            THEN [p EXCEPT !.inputs[idx + 1].tap_internal_key = internal_key]
            ELSE p
        names_key == IF IsSome(internal_key) THEN <<"tap_internal_key">> ELSE <<>>
        spend_info == taproot_spend_info(Unwrap(internal_key), state, Unwrap(cmr))
    IN
    IF IsSome(internal_key) /\ IsSome(cmr) /\ OutputKeyMismatch(spend_info, input_utxo)
    THEN Returned(Err([kind |-> "OutputKeyMismatch",
                       output_key |-> spend_info.output_key,
                       script_pubkey |-> input_utxo.script_pubkey]),
                  Some(with_key))
    ELSE
    LET with_leaf ==
            IF IsSome(internal_key) /\ IsSome(cmr)
            THEN [with_key EXCEPT
                    !.inputs[idx + 1].tap_merkle_root = spend_info.merkle_root,
                    !.inputs[idx + 1].tap_scripts =
                        ReplaceTapScripts(@, spend_info.control_block,
                                          script_ver(Unwrap(cmr)))]
            ELSE with_key
        names_leaf == IF IsSome(internal_key) /\ IsSome(cmr)
                      THEN names_key \o <<"tap_merkle_root", "tap_scripts">>
                      ELSE names_key
        q == [with_leaf EXCEPT !.inputs[idx + 1].witness_utxo =
                  Some(TxOut(input_utxo.asset, input_utxo.value, input_utxo.script_pubkey))]
    IN  Returned(Ok([pset |-> PsetToString(q),
                     updated_values |-> Append(names_leaf, "witness_utxo")]),
                 Some(q))

UpdateInputWithUtxo(pset_b64, input_idx, utxo, internal_key, cmr, state) ==
    LET parsed == ParsePset(pset_b64) IN
    IF ~parsed.ok THEN Returned(Err([kind |-> "PsetDecode"]), None)
    ELSE
    LET p == parsed.val
        idx == ParseInt(input_idx)
    IN
    IF ~idx.ok THEN Returned(Err([kind |-> "InputIndexParse"]), Some(p))
    ELSE
    IF ~utxo.ok THEN Returned(Err([kind |-> "ElementsUtxoParse"]), Some(p))
    ELSE IF idx.val >= n_inputs(p)
    THEN Returned(Err([kind |-> "InputIndexOutOfRange", index |-> idx.val,
                       total |-> n_inputs(p)]), Some(p))
    ELSE
    LET c == Transpose(cmr, ParseCmr(Unwrap(cmr))) IN
    IF ~c.ok THEN Returned(Err([kind |-> "CmrParse"]), Some(p))
    ELSE
    LET ik == Transpose(internal_key, ParseInternalKey(Unwrap(internal_key))) IN
    IF ~ik.ok THEN Returned(Err([kind |-> "InternalKeyParse"]), Some(p))
    ELSE IF IsSome(c.val) /\ ~IsSome(ik.val)
    THEN Returned(Err([kind |-> "MissingInternalKey"]), Some(p))
    ELSE IF ~is_v1_p2tr(utxo.val.script_pubkey)
    THEN Returned(Err([kind |-> "NotTaprootOutput"]), Some(p))
    ELSE
    LET st == Transpose(state, ParseState(Unwrap(state))) IN
    IF ~st.ok THEN Returned(Err([kind |-> "StateParse"]), Some(p))
    ELSE UpdateInputFields(p, idx.val, utxo.val, ik.val, c.val, st.val)

\* pset_update_input: utxo above is the result of parse_elements_utxo on the argument
pset_update_input(pset_b64, input_idx, input_utxo, internal_key, cmr, state) ==
    UpdateInputWithUtxo(pset_b64, input_idx, parse_elements_utxo(input_utxo), internal_key, cmr, state)

----------------------------------------------------------------------------
(* pset_create (pset/create.rs) *)

JsonStr(v) == <<"json", v>>
ParseJson(s) == IF s[1] = "json" THEN Ok(s[2]) ELSE Err([kind |-> "serde_json"])

InputSpec(txid, vout, sequence) == [txid |-> txid, vout |-> vout, sequence |-> sequence]
OutputSpec(address, asset, amount) == [address |-> address, asset |-> asset, amount |-> amount]

AddrFee == <<"fee">>
AddrData(hex) == <<"data:", hex>>
AddrStr(spk, blinded) == <<"address", spk, blinded>>

\* the script of one output: "fee", "data:HEX", or an unblinded address
OutputScript(address) ==
    IF address[1] = "fee" THEN Ok(<<>>)
    ELSE IF address[1] = "data:"
    THEN IF address[2][1] = "hex"
         THEN Ok(<<OP_RETURN, Len(address[2][2])>> \o address[2][2])
         ELSE Err([kind |-> "OpReturnHexParse"])
    ELSE IF address[1] # "address" THEN Err([kind |-> "AddressParse"])
    ELSE IF address[3] THEN Err([kind |-> "ConfidentialAddressNotSupported"])
    ELSE Ok(address[2])

\* the outputs loop: the first failing output ends the call
RECURSIVE CreateOutputs(_, _)
CreateOutputs(specs, acc) ==
    IF specs = <<>> THEN Ok(acc)
    ELSE LET spk == OutputScript(Head(specs).address) IN
         IF ~spk.ok THEN spk
         ELSE CreateOutputs(Tail(specs),
                  Append(acc, TxOut(<<"explicit", Head(specs).asset>>,
                                    <<"explicit", Head(specs).amount>>, spk.val)))

\* PartiallySignedTransaction::from_tx
from_tx(tx) ==
    [global |-> [version |-> tx.version, lock_time |-> tx.lock_time],
     inputs |-> [i \in 1..Len(tx.input) |->
                    PsetInput(tx.input[i].previous_output, tx.input[i].sequence)],
     outputs |-> [o \in 1..Len(tx.output) |->
                    PsetOutput(tx.output[o].script_pubkey, Some(tx.output[o].asset),
                               Some(tx.output[o].value))]]

\* the field names pset_create reports
CreateUpdatedValues == <<>>

pset_create(inputs_json, outputs_json) ==
    LET input_specs == ParseJson(inputs_json) IN
    IF ~input_specs.ok THEN Returned(Err([kind |-> "InputsJsonParse"]), None)
    ELSE
    LET output_specs == ParseJson(outputs_json) IN
    IF ~output_specs.ok THEN Returned(Err([kind |-> "OutputsJsonParse"]), None)
    ELSE
    LET inputs == [i \in 1..Len(input_specs.val) |->
                     [previous_output |-> <<input_specs.val[i].txid, input_specs.val[i].vout>>,
                      sequence |-> IF IsSome(input_specs.val[i].sequence)
                                   THEN Unwrap(input_specs.val[i].sequence)
                                   ELSE MaxSequence,
                      script_witness |-> <<>>]]
        outputs == CreateOutputs(output_specs.val, <<>>)
    IN
    IF ~outputs.ok THEN Returned(outputs, None)
    ELSE
    LET tx == [version |-> 2, lock_time |-> 0, input |-> inputs, output |-> outputs.val]
        p == from_tx(tx)
    IN  Returned(Ok([pset |-> PsetToString(p), updated_values |-> CreateUpdatedValues]),
                 Some(p))

----------------------------------------------------------------------------
(* Values a caller may supply *)

X == 1
Y == 2

\* the asset of every amount here
PolicyAsset == [i \in 1..AssetIdLen |-> 7]

CbA == ControlBlock(SimplicityLeafVersion, 0, 2, <<>>)
CbB == ControlBlock(SimplicityLeafVersion, 1, 1, <<>>)
CbC == ControlBlock(SimplicityLeafVersion, 1, 1, <<7>>)

Entry(cb, script, ver) == [cb |-> cb, script |-> script, ver |-> ver]

\* Taproot script maps of supplied inputs: no leaf; one leaf; the same leaf
\* under several control blocks; leaves of two programs; the right bytes under
\* another leaf version next to the right version over longer bytes
TapScriptPool ==
    { {},
      {Entry(CbB, CmrBytes(X), SimplicityLeafVersion)},
      {Entry(CbA, CmrBytes(X), SimplicityLeafVersion),
       Entry(CbB, CmrBytes(X), SimplicityLeafVersion),
       Entry(CbC, CmrBytes(X), SimplicityLeafVersion)},
      {Entry(CbA, CmrBytes(X), SimplicityLeafVersion),
       Entry(CbC, CmrBytes(Y), SimplicityLeafVersion)},
      {Entry(CbA, CmrBytes(X), TapScriptLeafVersion),
       Entry(CbB, Append(CmrBytes(X), 0), SimplicityLeafVersion),
       Entry(CbC, CmrBytes(Y), SimplicityLeafVersion)} }

InternalKey == 1

\* the UTXO that pays to the tap tree of (InternalKey, cmr)
UtxoFor(cmr) == ElementsUtxo(P2tr(OutputKey(InternalKey, cmr, None)),
                            <<"explicit", PolicyAsset>>, <<"explicit", 1000>>)

WitnessUtxoPool ==
    {None, Some(TxOut(UtxoFor(X).asset, UtxoFor(X).value, UtxoFor(X).script_pubkey))}

SuppliedInputs ==
    { [PsetInput(<<7, 0>>, MaxSequence) EXCEPT
           !.tap_scripts = t, !.witness_utxo = u] :
      t \in TapScriptPool, u \in WitnessUtxoPool }

\* one output, complete or lacking its amount
SuppliedOutputs ==
    { <<PsetOutput(UtxoFor(Y).script_pubkey, Some(<<"explicit", PolicyAsset>>), Some(<<"explicit", 900>>))>>,
      <<PsetOutput(UtxoFor(Y).script_pubkey, Some(<<"explicit", PolicyAsset>>), None)>> }

RECURSIVE SeqsUpTo(_, _)
SeqsUpTo(S, n) ==
    IF n = 0 THEN {<<>>}
    ELSE LET shorter == SeqsUpTo(S, n - 1)
         IN  shorter \cup {Append(q, x) : q \in {r \in shorter : Len(r) = n - 1}, x \in S}

SuppliedPsets ==
    { [global |-> [version |-> 2, lock_time |-> 0], inputs |-> ins, outputs |-> outs] :
      ins \in SeqsUpTo(SuppliedInputs, MaxInputs), outs \in SuppliedOutputs }

GenesisArgs == {None, Some(HexStr([i \in 1..HashLen |-> i])), Some(Junk)}
IndexArgs == 0..MaxInputs

NoJets == <<>>
EqJets == <<Jet(<<"e", "q", "_", "8">>, <<258>>, <<1>>, FALSE),
            Jet(<<"v", "e", "r", "i", "f", "y">>, <<1>>, <<>>, TRUE)>>

ProgramPool == {Program(X, NoJets, FALSE), Program(Y, EqJets, FALSE),
                Program(X, NoJets, TRUE)}

ProgramArgs == {ProgStr(prog) : prog \in ProgramPool} \cup {Junk}
WitnessArgs == {WitStr("accept"), WitStr("reject"), WitStr("malformed")}

NoCall == [op |-> "none"]
Idle == call.op = "none"

----------------------------------------------------------------------------
(* SpecRequest: one request on a PSET the caller supplies *)

InitRequest ==
    /\ pset \in {PsetToString(p) : p \in SuppliedPsets} \cup {Junk}
    /\ call = NoCall
    /\ result = Ok(<<>>)
    /\ mem = None
    /\ prev = NoCall

\* execution_environment borrows a parsed PSET immutably
ExecutionEnvironmentCall ==
    /\ Idle
    /\ ParsePset(pset).ok
    /\ \E idx \in IndexArgs, cmr \in CmrIds, gh \in GenesisArgs :
          /\ call' = [op |-> "execution_environment", input_idx |-> idx,
                      cmr |-> cmr, genesis_hash |-> gh]
          /\ result' = execution_environment(ParsePset(pset).val, idx, cmr, gh)
          /\ mem' = Some(ParsePset(pset).val)
    /\ UNCHANGED <<pset, prev>>

PsetFinalizeCall ==
    /\ Idle
    /\ \E idx \in {DecStr(i) : i \in IndexArgs} \cup {Junk},
          prog \in ProgramArgs, wit \in WitnessArgs, gh \in GenesisArgs :
          LET r == pset_finalize(pset, idx, prog, wit, gh) IN
          /\ call' = [op |-> "pset_finalize", input_idx |-> idx, program |-> prog,
                      witness |-> wit, genesis_hash |-> gh]
          /\ result' = r.res
          /\ mem' = r.mem
    /\ UNCHANGED <<pset, prev>>

PsetRunCall ==
    /\ Idle
    /\ \E idx \in {DecStr(i) : i \in IndexArgs} \cup {Junk},
          prog \in ProgramArgs, wit \in WitnessArgs, gh \in GenesisArgs :
          LET r == pset_run(pset, idx, prog, wit, gh) IN
          /\ call' = [op |-> "pset_run", input_idx |-> idx, program |-> prog,
                      witness |-> wit, genesis_hash |-> gh]
          /\ result' = r.res
          /\ mem' = r.mem
    /\ UNCHANGED <<pset, prev>>

PsetExtractCall ==
    /\ Idle
    /\ LET r == pset_extract(pset) IN
          /\ call' = [op |-> "pset_extract"]
          /\ result' = r.res
          /\ mem' = r.mem
    /\ UNCHANGED <<pset, prev>>

\* arguments of pset_update_input
UtxoArgs == {UtxoStr(UtxoFor(X)), UtxoStr(UtxoFor(Y)),
             UtxoStr(ElementsUtxo(NonTaprootScript, <<"explicit", PolicyAsset>>, <<"explicit", 1000>>)),
             Junk}
InternalKeyArgs == {None, Some(IkStr(InternalKey)), Some(Junk)}
CmrArgs == {None, Some(CmrToString(X)), Some(Junk)}
StateArgs == {None, Some(HexStr([i \in 1..HashLen |-> 9])), Some(Junk)}

PsetUpdateInputCall ==
    /\ Idle
    /\ \E utxo \in UtxoArgs :
       LET parsed_utxo == parse_elements_utxo(utxo) IN
       \E idx \in {DecStr(i) : i \in IndexArgs} \cup {Junk},
          ik \in InternalKeyArgs, cmr \in CmrArgs, state \in StateArgs :
          LET r == UpdateInputWithUtxo(pset, idx, parsed_utxo, ik, cmr, state) IN
          /\ call' = [op |-> "pset_update_input", input_idx |-> idx, input_utxo |-> utxo,
                      internal_key |-> ik, cmr |-> cmr, state |-> state]
          /\ result' = r.res
          /\ mem' = r.mem
    /\ UNCHANGED <<pset, prev>>

\* arguments of pset_create
InputSpecsOf(n) == [i \in 1..n |-> InputSpec(7, i - 1, IF i = 1 THEN None ELSE Some("fffffffd"))]
InputsJsonArgs == {JsonStr(InputSpecsOf(n)) : n \in 0..MaxInputs} \cup {Junk}
OutputSpecPool ==
    { OutputSpec(AddrStr(UtxoFor(Y).script_pubkey, FALSE), PolicyAsset, 900),
      OutputSpec(AddrStr(UtxoFor(Y).script_pubkey, TRUE), PolicyAsset, 900),
      OutputSpec(AddrFee, PolicyAsset, 100),
      OutputSpec(AddrData(HexStr(<<1, 2>>)), PolicyAsset, 0),
      OutputSpec(AddrData(Junk), PolicyAsset, 0),
      OutputSpec(Junk, PolicyAsset, 900) }
OutputsJsonArgs == {JsonStr(q) : q \in SeqsUpTo(OutputSpecPool, MaxOutputs)} \cup {Junk}

\* pset_create takes no PSET: the request comes from a caller that holds none
PsetCreateCall ==
    /\ Idle
    /\ ~ParsePset(pset).ok
    /\ \E ins \in InputsJsonArgs, outs \in OutputsJsonArgs :
          LET r == pset_create(ins, outs) IN
          /\ call' = [op |-> "pset_create", inputs_json |-> ins, outputs_json |-> outs]
          /\ result' = r.res
          /\ mem' = r.mem
    /\ UNCHANGED <<pset, prev>>

\* simplicity_sighash on the supplied PSET; public keys and signatures are
\* varied in SpecSighash
SimplicitySighashCall ==
    /\ Idle
    /\ \E idx \in IndexArgs, cmr \in CmrIds, cb \in {None, Some(CbStr(CbA))},
          utxos \in {None, Some(<<UtxoStr(UtxoFor(X))>>)}, gh \in GenesisArgs :
       LET env == SighashEnv(pset, DecStr(idx), CmrToString(cmr), cb, gh, utxos) IN
       \E sk \in {None, Some(SkStr(1))}, pk \in {None} :
          LET r == SighashWithEnv(pset, env, sk, pk, None, 0) IN
          /\ call' = [op |-> "simplicity_sighash", input_idx |-> DecStr(idx),
                      cmr |-> CmrToString(cmr), control_block |-> cb,
                      genesis_hash |-> gh, secret_key |-> sk, public_key |-> pk,
                      signature |-> None, input_utxos |-> utxos]
          /\ result' = r.res
          /\ mem' = r.mem
    /\ UNCHANGED <<pset, prev>>

NextRequest ==
    \/ ExecutionEnvironmentCall
    \/ PsetFinalizeCall
    \/ PsetRunCall
    \/ PsetExtractCall
    \/ PsetUpdateInputCall
    \/ PsetCreateCall
    \/ SimplicitySighashCall

SpecRequest == InitRequest /\ [][NextRequest]_vars

----------------------------------------------------------------------------
(* SpecSighash: one simplicity_sighash request on a transaction given as a *)
(* PSET or as raw hex                                                      *)

SmallPsets == {p \in SuppliedPsets : Len(p.inputs) <= 1}

SighashTxArgs ==
    {PsetToString(p) : p \in SmallPsets}
        \cup {TxHexStr(extract_tx(p).val) : p \in {q \in SmallPsets : extract_tx(q).ok}}
        \cup {HexStr(<<0>>), Junk}

SecretKeyArgs == {None, Some(SkStr(1)), Some(SkStr(2)), Some(Junk)}
PublicKeyArgs == {None, Some(PkStr(XOnlyPublicKeyOf(1))), Some(Junk)}
\* a signature over something else, and a string that is no signature
SignatureArgs == {None, Some(SigStr(sign_schnorr(<<"sha256">>, 1, 0))), Some(Junk)}
ControlBlockArgs == {None, Some(CbStr(CbB)), Some(Junk)}
InputUtxoArgs == {None, Some(<<>>), Some(<<UtxoStr(UtxoFor(X))>>), Some(<<Junk>>)}

InitSighash ==
    /\ pset \in SighashTxArgs
    /\ call = NoCall
    /\ result = Ok(<<>>)
    /\ mem = None
    /\ prev = NoCall

SighashCall ==
    /\ Idle
    /\ \E idx \in {DecStr(i) : i \in IndexArgs} \cup {Junk},
          cmr \in {CmrToString(X), Junk}, cb \in ControlBlockArgs, gh \in GenesisArgs,
          utxos \in InputUtxoArgs :
          \* what simplicity_sighash(pset, idx, cmr, cb, gh, .., utxos, ..)
          \* computes before it looks at the keys, for every choice of keys
          LET env == SighashEnv(pset, idx, cmr, cb, gh, utxos)
              \* the caller may also hold a signature made for this very sighash
              signed == IF env.ok
                        THEN {Some(SigStr(sign_schnorr(sighash_all(env.val), 1, 0)))}
                        ELSE {}
          IN
          \E sk \in SecretKeyArgs, pk \in PublicKeyArgs, aux \in {0, 1},
             sig \in SignatureArgs \cup signed :
              LET r == SighashWithEnv(pset, env, sk, pk, sig, aux)
              IN
              /\ call' = [op |-> "simplicity_sighash", input_idx |-> idx, cmr |-> cmr,
                          control_block |-> cb, genesis_hash |-> gh, secret_key |-> sk,
                          public_key |-> pk, signature |-> sig, input_utxos |-> utxos]
              /\ result' = r.res
              /\ mem' = r.mem
    /\ UNCHANGED <<pset, prev>>

NextSighash == SighashCall

SpecSighash == InitSighash /\ [][NextSighash]_vars

----------------------------------------------------------------------------
(* SpecUtxo: a UTXO is written as a string, the string is parsed, and what *)
(* was parsed is written again; strings of the caller's own are parsed too *)

UtxoScripts ==
    {<<>>, UtxoFor(X).script_pubkey, NonTaprootScript, <<OP_RETURN, 2, 1, 2>>,
     <<255>>, <<10, 171, 0>>}
UtxoAssets ==
    {<<"explicit", PolicyAsset>>, <<"explicit", [i \in 1..AssetIdLen |-> i]>>,
     <<"explicit", [i \in 1..AssetIdLen |-> 256 - i]>>,
     <<"confidential", [i \in 1..CommitmentLen |-> IF i = 1 THEN 10 ELSE i]>>}
UtxoValues ==
    {<<"explicit", n>> : n \in {0, 1, 1000, 99999999, 100000000, 123456789, 999999999}}
        \cup {<<"confidential", [i \in 1..CommitmentLen |-> IF i = 1 THEN 8 ELSE 17]>>}

UtxoPool ==
    {ElementsUtxo(spk, asset, value) :
        spk \in UtxoScripts, asset \in UtxoAssets, value \in UtxoValues}

\* strings written by hand: amounts without trailing zeros, without a
\* fraction, with too many decimals; too few and too many fields; fields
\* that are no hex
WrittenUtxos ==
    LET spk == BytesHex(NonTaprootScript)
        asset == AssetStr(<<"explicit", PolicyAsset>>)
    IN  {spk \o <<":">> \o asset \o <<":">> \o v :
            v \in {<<"0", ".", "0", "0", "0", "0", "1">>, <<"1">>, <<"1", ".">>,
                   <<".", "5">>, <<"9">>, <<"1", ".", "0", "0", "0", "0", "0", "0", "0", "0", "0">>,
                   <<"x">>, <<>>}}
        \cup {spk \o <<":">> \o asset, spk \o <<":">> \o asset \o <<":", "1", ":">>,
              <<"z", "z", ":">> \o asset \o <<":", "1">>,
              spk \o <<":", "0", "a", ":", "1">>, Junk}

InitUtxo ==
    /\ pset = Junk
    /\ call = NoCall
    /\ result = Ok(<<>>)
    /\ mem \in {None} \cup {Some(utxo) : utxo \in UtxoPool}
    /\ prev = NoCall

\* the UTXO at hand is written as a string
FormatUtxo ==
    /\ Idle
    /\ IsSome(mem)
    /\ call' = [op |-> "format", utxo |-> Unwrap(mem)]
    /\ result' = Ok(UtxoStr(Unwrap(mem)))
    /\ UNCHANGED <<pset, mem, prev>>

\* a string of the caller's own is parsed
ParseWrittenUtxo ==
    /\ Idle
    /\ ~IsSome(mem)
    /\ \E s \in WrittenUtxos :
          /\ call' = [op |-> "parse_elements_utxo", s |-> s]
          /\ result' = parse_elements_utxo(s)
    /\ UNCHANGED <<pset, mem, prev>>

\* the string just written is parsed
ParseFormattedUtxo ==
    /\ call.op = "format"
    /\ call' = [op |-> "parse_elements_utxo", s |-> result.val]
    /\ result' = parse_elements_utxo(result.val)
    /\ prev' = call
    /\ UNCHANGED <<pset, mem>>

\* the UTXO just parsed is written again
ReformatUtxo ==
    /\ call.op = "parse_elements_utxo"
    /\ result.ok
    /\ call' = [op |-> "reformat", utxo |-> result.val, s |-> call.s]
    /\ result' = Ok(UtxoStr(result.val))
    /\ UNCHANGED <<pset, mem, prev>>

NextUtxo ==
    \/ FormatUtxo
    \/ ParseWrittenUtxo
    \/ ParseFormattedUtxo
    \/ ReformatUtxo

SpecUtxo == InitUtxo /\ [][NextUtxo]_vars

----------------------------------------------------------------------------
(* SpecTrace: the bit machine reports jet calls to a JetTracker, one after *)
(* the other                                                               *)

MaxJetCalls == 2

JetNames ==
    {<<"e", "q", "_", "1">>, <<"e", "q", "_", "2">>, <<"e", "q", "_", "8">>,
     <<"e", "q", "_", "2", "5", "6">>, <<"e", "q", "_">>, <<"e", "q">>,
     <<"l", "e", "_", "8">>, <<"x", "e", "q", "_", "8">>}

InputBuffers == {<<>>, <<258>>, <<258, 43981>>, <<0, 65535, 4660>>}
\* what a jet call left behind: nothing on failure, a word or nothing on success
JetOutcomes ==
    {[output |-> <<>>, success |-> FALSE], [output |-> <<>>, success |-> TRUE],
     [output |-> <<1, 61455>>, success |-> TRUE]}

InitTrace ==
    /\ pset = Junk
    /\ call = NoCall
    /\ result = Ok(<<>>)
    /\ mem = <<>>
    /\ prev = NoCall

TrackJetCall ==
    /\ Len(mem) < MaxJetCalls
    /\ \E name \in JetNames, input \in InputBuffers, out \in JetOutcomes :
          /\ call' = [op |-> "track_jet_call", jet |-> name, input_buffer |-> input,
                      output_buffer |-> out.output, success |-> out.success]
          /\ mem' = track_jet_call(mem, Jet(name, input, out.output, FALSE), input,
                                   out.output, out.success)
    /\ prev' = call
    /\ UNCHANGED <<pset, result>>

NextTrace == TrackJetCall

SpecTrace == InitTrace /\ [][NextTrace]_vars

----------------------------------------------------------------------------
(* hex_or_base64 (utils/mod.rs): a program or a witness, given as hex or   *)
(* as base64                                                               *)

\* u8::is_ascii_hexdigit: 0-9, a-f, A-F
is_ascii_hexdigit(b) ==
    b \in {"0", "1", "2", "3", "4", "5", "6", "7", "8", "9",
           "a", "b", "c", "d", "e", "f", "A", "B", "C", "D", "E", "F"}

\* u8::is_ascii_lowercase: a-z, and nothing else
is_ascii_lowercase(b) ==
    b \in {"a", "b", "c", "d", "e", "f", "g", "h", "i", "j", "k", "l", "m",
           "n", "o", "p", "q", "r", "s", "t", "u", "v", "w", "x", "y", "z"}

\* the alphabet of BASE64_STANDARD, values 0 to 63
Base64Alphabet ==
    <<"A", "B", "C", "D", "E", "F", "G", "H", "I", "J", "K", "L", "M", "N", "O", "P",
      "Q", "R", "S", "T", "U", "V", "W", "X", "Y", "Z", "a", "b", "c", "d", "e", "f",
      "g", "h", "i", "j", "k", "l", "m", "n", "o", "p", "q", "r", "s", "t", "u", "v",
      "w", "x", "y", "z", "0", "1", "2", "3", "4", "5", "6", "7", "8", "9", "+", "/">>

IsBase64Char(c) == \E v \in 1..Len(Base64Alphabet) : Base64Alphabet[v] = c
Base64Val(c) == (CHOOSE v \in 1..Len(Base64Alphabet) : Base64Alphabet[v] = c) - 1

\* BASE64_STANDARD.decode: groups of four symbols, three bytes a group, "="
\* padding required at the end and nowhere else, no stray bits in the last
\* symbol
Base64Decode(s) ==
    LET pad == IF Len(s) >= 2 /\ s[Len(s)] = "=" /\ s[Len(s) - 1] = "=" THEN 2
               ELSE IF Len(s) >= 1 /\ s[Len(s)] = "=" THEN 1 ELSE 0
        symbols == Len(s) - pad
        val(i) == IF i > symbols THEN 0 ELSE Base64Val(s[i])
        group(g) == 262144 * val(4 * g - 3) + 4096 * val(4 * g - 2)
                        + 64 * val(4 * g - 1) + val(4 * g)
        bytes == [k \in 1..(3 * (Len(s) \div 4)) |->
                     (group(((k - 1) \div 3) + 1) \div Pow256(2 - ((k - 1) % 3))) % 256]
    IN
    IF \/ Len(s) % 4 # 0
       \/ \E i \in 1..symbols : ~IsBase64Char(s[i])
       \/ (pad = 1 /\ val(symbols) % 4 # 0)
       \/ (pad = 2 /\ val(symbols) % 16 # 0)
    THEN Err([kind |-> "DecodeError"])
    ELSE Ok(SubSeq(bytes, 1, Len(bytes) - pad))

\* Vec::from_hex(s).expect("charset checked above")
HexBytes(s) ==
    [k \in 1..(Len(s) \div 2) |-> 16 * DigitVal(s[2 * k - 1]) + DigitVal(s[2 * k])]

hex_or_base64(s) ==
    IF Len(s) % 2 = 0
          /\ \A i \in 1..Len(s) : is_ascii_hexdigit(s[i]) /\ is_ascii_lowercase(s[i])
    THEN Ok(HexBytes(s))
    ELSE Base64Decode(s)

----------------------------------------------------------------------------
(* Program::from_str (hal_simplicity.rs) on encoded strings. The decoders  *)
(* of the Simplicity library are taken at their boundary: a program is the *)
(* bytes it was decoded from, its first byte tells whether it decodes and  *)
(* how many witness bytes it consumes                                      *)

\* the witness bytes a program consumes
WitnessBytesOf(prog_bytes) == prog_bytes[1] % 2

\* CommitNode::decode: reads the program alone
CommitNodeDecode(prog_bytes) ==
    IF prog_bytes = <<>> \/ prog_bytes[1] % 4 = 3
    THEN Err([kind |-> "Decode"])
    ELSE Ok([cmr |-> <<"cmr", prog_bytes>>])

\* RedeemNode::decode: reads the program again, and the witness with it
RedeemNodeDecode(prog_bytes, wit_bytes) ==
    IF ~CommitNodeDecode(prog_bytes).ok \/ Len(wit_bytes) # WitnessBytesOf(prog_bytes)
    THEN Err([kind |-> "Decode"])
    ELSE Ok([cmr |-> <<"cmr", prog_bytes>>,
             amr |-> <<"amr", prog_bytes, wit_bytes>>,
             ihr |-> <<"ihr", prog_bytes, wit_bytes>>])

\* a redeem node only for a witness that is not the empty string
RedeemProgSkippingEmpty(prog_bytes, wit_hex) ==
    IF ~IsSome(wit_hex) \/ Unwrap(wit_hex) = <<>> THEN Ok(None)
    ELSE
    LET wit_bytes == hex_or_base64(Unwrap(wit_hex)) IN
    IF ~wit_bytes.ok THEN Err([kind |-> "Base64"])
    ELSE
    LET redeem == RedeemNodeDecode(prog_bytes, wit_bytes.val) IN
    IF ~redeem.ok THEN redeem ELSE Ok(Some(redeem.val))

\* wit_hex.map(..).transpose()?
RedeemProg(prog_bytes, wit_hex) ==
    IF ~IsSome(wit_hex) THEN Ok(None)
    ELSE
    LET wit_bytes == hex_or_base64(Unwrap(wit_hex)) IN
    IF ~wit_bytes.ok THEN Err([kind |-> "Base64"])
    ELSE
    LET redeem == RedeemNodeDecode(prog_bytes, wit_bytes.val) IN
    IF ~redeem.ok THEN redeem ELSE Ok(Some(redeem.val))

from_str(prog_b64, wit_hex) ==
    LET prog_bytes == hex_or_base64(prog_b64) IN
    IF ~prog_bytes.ok THEN Err([kind |-> "Base64"])
    ELSE
    LET commit_prog == CommitNodeDecode(prog_bytes.val) IN
    IF ~commit_prog.ok THEN commit_prog
    ELSE
    LET redeem_prog == RedeemProg(prog_bytes.val, wit_hex) IN
    IF ~redeem_prog.ok THEN redeem_prog
    ELSE Ok([commit_prog |-> commit_prog.val, redeem_prog |-> redeem_prog.val])

\* Program::amr and Program::ihr
amr(program) == IF IsSome(program.redeem_prog) THEN Some(Unwrap(program.redeem_prog).amr) ELSE None
ihr(program) == IF IsSome(program.redeem_prog) THEN Some(Unwrap(program.redeem_prog).ihr) ELSE None

----------------------------------------------------------------------------
(* SpecDecode: one string is handed to hex_or_base64 *)

MaxStrLen == 4

EncodedChars == {"0", "9", "a", "f", "F", "g", "="}
EncodedStrings == SeqsUpTo(EncodedChars, MaxStrLen)

InitDecode ==
    /\ pset \in EncodedStrings
    /\ call = NoCall
    /\ result = Ok(<<>>)
    /\ mem = None
    /\ prev = NoCall

HexOrBase64Call ==
    /\ Idle
    /\ call' = [op |-> "hex_or_base64", s |-> pset]
    /\ result' = hex_or_base64(pset)
    /\ UNCHANGED <<pset, mem, prev>>

NextDecode == HexOrBase64Call

SpecDecode == InitDecode /\ [][NextDecode]_vars

----------------------------------------------------------------------------
(* SpecProgram: one program string is handed to Program::from_str, with or *)
(* without a witness string                                                *)

WitHexArgs == {None, Some(<<>>), Some(<<"a", "a">>), Some(<<"a", "g", "=", "=">>), Some(<<"g">>)}

InitProgram ==
    /\ pset \in EncodedStrings
    /\ call = NoCall
    /\ result = Ok(<<>>)
    /\ mem = None
    /\ prev = NoCall

FromStrCall ==
    /\ Idle
    /\ \E wit_hex \in WitHexArgs :
          /\ call' = [op |-> "from_str", prog_b64 |-> pset, wit_hex |-> wit_hex]
          /\ result' = from_str(pset, wit_hex)
    /\ UNCHANGED <<pset, mem, prev>>

NextProgram == FromStrCall

SpecProgram == InitProgram /\ [][NextProgram]_vars

----------------------------------------------------------------------------
(* The RPC client (hal_simplicity_client.rs): one HalSimplicity shared by  *)
(* several threads, each making calls. mem is the client, call the         *)
(* position of every thread, prev the ids in the order they were handed    *)
(* out, result the number of requests sent under each id                   *)

\* the width of next_id in bits (an AtomicU64, scaled down)
IdBits == 3
IdModulus == 2 ^ IdBits

\* a fetch_add that leaves the counter as it was
fetch_addWithoutStore(counter, val) == [old |-> counter, new |-> counter]

\* AtomicU64::fetch_add(val, SeqCst): one atomic step that returns the old
\* value and stores the sum, wrapping around on overflow
fetch_add(counter, val) == [old |-> counter, new |-> (counter + val) % IdModulus]

\* HalSimplicity::new
HalSimplicityNew == [next_id |-> 1]

\* HalSimplicity::next_id: the id and the client after it
next_id(client) ==
    LET f == fetch_add(client.next_id, 1) IN
    [id |-> f.old, client |-> [client EXCEPT !.next_id = f.new]]

----------------------------------------------------------------------------
(* SpecClient: the threads call in any interleaving *)

MaxRequests == 9
Threads == {1, 2, 3}
Methods == {"keypair_generate", "pset_create"}

InitClient ==
    /\ pset = Junk
    /\ call = [t \in Threads |-> [pc |-> "idle"]]
    /\ result = [id \in 0..(IdModulus - 1) |-> 0]
    /\ mem = HalSimplicityNew
    /\ prev = <<>>

\* call: let id = self.next_id()
CallNextId(t) ==
    /\ call[t].pc = "idle"
    /\ Len(prev) < MaxRequests
    /\ \E method \in Methods :
          LET n == next_id(mem) IN
          /\ call' = [call EXCEPT ![t] = [pc |-> "send", method |-> method, id |-> n.id]]
          /\ mem' = n.client
          /\ prev' = Append(prev, n.id)
    /\ UNCHANGED <<pset, result>>

\* call: the request is built with the id and posted
CallSend(t) ==
    /\ call[t].pc = "send"
    /\ call' = [call EXCEPT ![t].pc = "wait"]
    /\ result' = [result EXCEPT ![call[t].id] = @ + 1]
    /\ UNCHANGED <<pset, mem, prev>>

\* call: the response, or an error, is returned
CallReturn(t) ==
    /\ call[t].pc = "wait"
    /\ call' = [call EXCEPT ![t] = [pc |-> "idle"]]
    /\ UNCHANGED <<pset, result, mem, prev>>

NextClient == \E t \in Threads : CallNextId(t) \/ CallSend(t) \/ CallReturn(t)

SpecClient == InitClient /\ [][NextClient]_vars

----------------------------------------------------------------------------
(* Transaction creation from JSON (cmd/tx.rs, daemon/actions/tx.rs): the    *)
(* outputs of a TransactionInfo turned into the outputs of a transaction   *)

Networks == {"ElementsRegtest", "Liquid", "LiquidTestnet"}

\* an address: the parameters of its network and the script it pays to
Address(params, script) == [params |-> params, script |-> script]

\* Network::from_params: None for parameters of no known network
from_params(params) == IF params \in Networks THEN Some(params) ELSE None

OutputScriptInfo(hex, asm, address) == [hex |-> hex, asm |-> asm, address |-> address]
OutputInfo(value, asset, script_pub_key) ==
    [value |-> value, asset |-> asset, script_pub_key |-> script_pub_key]

\* create_script_pubkey: the result, and used_network as the call leaves it
create_script_pubkey(spk, used_network) ==
    IF IsSome(spk.hex) THEN [res |-> Ok(Unwrap(spk.hex)), used_network |-> used_network]
    ELSE IF IsSome(spk.asm)
    THEN [res |-> Err([kind |-> "AsmNotSupported"]), used_network |-> used_network]
    ELSE IF IsSome(spk.address)
    THEN LET address == Unwrap(spk.address)
             network == from_params(address.params)
             \* used_network.replace(network).unwrap_or(network)
             replaced == IF IsSome(used_network) THEN Unwrap(used_network)
                         ELSE Unwrap(network)
         IN  IF IsSome(network) /\ replaced # Unwrap(network)
             THEN [res |-> Err([kind |-> "MixedNetworks"]), used_network |-> network]
             ELSE [res |-> Ok(address.script),
                   used_network |-> IF IsSome(network) THEN network ELSE used_network]
    ELSE [res |-> Err([kind |-> "NoScriptPubKey"]), used_network |-> used_network]

\* create_output: used_network is a local of the call, None at its start
\* (nonce, pegout_data and witness absent: none of them reads used_network)
create_output(output) ==
    LET used_network == None IN
    IF ~IsSome(output.value) THEN Err([kind |-> "MissingField", field |-> "value"])
    ELSE IF ~IsSome(output.asset) THEN Err([kind |-> "MissingField", field |-> "asset"])
    ELSE IF IsSome(output.script_pub_key)
    THEN LET script_pubkey == create_script_pubkey(Unwrap(output.script_pub_key), used_network).res
         IN  IF ~script_pubkey.ok THEN script_pubkey
             ELSE Ok(TxOut(Unwrap(output.asset), Unwrap(output.value), script_pubkey.val))
    ELSE Ok(TxOut(Unwrap(output.asset), Unwrap(output.value), <<>>))

\* .into_iter().map(create_output).collect::<Result<Vec<_>, _>>()
RECURSIVE CollectOutputs(_, _)
CollectOutputs(outputs, acc) ==
    IF outputs = <<>> THEN Ok(acc)
    ELSE LET out == create_output(Head(outputs)) IN
         IF ~out.ok THEN out ELSE CollectOutputs(Tail(outputs), Append(acc, out.val))

create_transaction(info) ==
    IF ~IsSome(info.version) THEN Err([kind |-> "MissingField", field |-> "version"])
    ELSE IF ~IsSome(info.locktime) THEN Err([kind |-> "MissingField", field |-> "locktime"])
    ELSE IF ~IsSome(info.inputs) THEN Err([kind |-> "MissingField", field |-> "inputs"])
    ELSE IF ~IsSome(info.outputs) THEN Err([kind |-> "MissingField", field |-> "outputs"])
    ELSE
    LET outputs == CollectOutputs(Unwrap(info.outputs), <<>>) IN
    IF ~outputs.ok THEN outputs
    ELSE Ok([version |-> Unwrap(info.version), lock_time |-> Unwrap(info.locktime),
             input |-> Unwrap(info.inputs), output |-> outputs.val])

----------------------------------------------------------------------------
(* SpecTx: one TransactionInfo is handed to create_transaction *)

MaxTxOutputs == 2

AddressOutput(params, script) ==
    OutputInfo(Some(<<"explicit", 900>>), Some(<<"explicit", PolicyAsset>>),
               Some(OutputScriptInfo(None, None, Some(Address(params, script)))))

OutputInfoPool ==
    { AddressOutput("Liquid", <<1>>), AddressOutput("LiquidTestnet", <<2>>),
      AddressOutput("ElementsRegtest", <<3>>), AddressOutput("custom", <<4>>),
      OutputInfo(Some(<<"explicit", 900>>), Some(<<"explicit", PolicyAsset>>),
                 Some(OutputScriptInfo(Some(<<5>>), None, Some(Address("Liquid", <<1>>))))),
      OutputInfo(Some(<<"explicit", 900>>), Some(<<"explicit", PolicyAsset>>),
                 Some(OutputScriptInfo(None, Some("OP_TRUE"), None))),
      OutputInfo(Some(<<"explicit", 900>>), Some(<<"explicit", PolicyAsset>>),
                 Some(OutputScriptInfo(None, None, None))),
      OutputInfo(Some(<<"explicit", 100>>), Some(<<"explicit", PolicyAsset>>), None),
      OutputInfo(None, Some(<<"explicit", PolicyAsset>>), None),
      OutputInfo(Some(<<"explicit", 900>>), None, None) }

TransactionInfos ==
    { [version |-> Some(2), locktime |-> Some(0), inputs |-> Some(<<>>), outputs |-> outs] :
      outs \in {None} \cup {Some(q) : q \in SeqsUpTo(OutputInfoPool, MaxTxOutputs)} }

InitTx ==
    /\ pset = Junk
    /\ call = NoCall
    /\ result = Ok(<<>>)
    /\ mem = None
    /\ prev = NoCall

CreateTransactionCall ==
    /\ Idle
    /\ \E info \in TransactionInfos :
          /\ call' = [op |-> "create_transaction", info |-> info]
          /\ result' = create_transaction(info)
    /\ UNCHANGED <<pset, mem, prev>>

NextTx == CreateTransactionCall

SpecTx == InitTx /\ [][NextTx]_vars

----------------------------------------------------------------------------
(* The daemon (daemon/mod.rs): start() binds the listener and spawns the    *)
(* server thread; the thread subscribes to the shutdown channel and then    *)
(* loops over select! { accept, shutdown_rx.recv() }; shutdown() sends ()   *)
(* on the channel. A tokio broadcast channel hands a value to the receivers *)
(* subscribed when it is sent: send fails when there is none, and a         *)
(* receiver made by subscribe() later does not see it.                      *)

MaxShutdowns == 2
MaxConnections == 4

\* broadcast::channel(1), its first receiver dropped in new()
BroadcastChannel == [receivers |-> 0, pending |-> 0, lagged |-> FALSE]

\* Sender::subscribe: a receiver that sees what is sent from now on
subscribe(channel) == [receivers |-> channel.receivers + 1, pending |-> 0, lagged |-> FALSE]

\* Sender::send on a channel of capacity 1: an error, and nothing kept,
\* without receivers; else the value replaces an unread one, whose receiver
\* lags
send(channel) ==
    IF channel.receivers = 0 THEN channel
    ELSE [channel EXCEPT !.pending = 1, !.lagged = channel.pending = 1]

\* Receiver::recv is ready: Ok(()) or Err(Lagged); select! takes either
RecvReady(channel) == channel.receivers > 0 /\ channel.pending > 0

\* HalSimplicityDaemon::new
InitDaemon ==
    /\ pset = Junk
    /\ call = [pc |-> "created", shutdowns |-> 0]
    /\ result = [pc |-> "none", accepted |-> 0, open |-> 0]
    /\ mem = BroadcastChannel
    /\ prev = NoCall

\* start(): the listener is bound, the thread is spawned, Ok(()) returned
Start ==
    /\ call.pc = "created"
    /\ call' = [call EXCEPT !.pc = "started"]
    /\ result' = [result EXCEPT !.pc = "spawned"]
    /\ UNCHANGED <<pset, mem, prev>>

\* start(): Runtime::new or TcpListener::bind fails, no thread is spawned
StartFails ==
    /\ call.pc = "created"
    /\ call' = [call EXCEPT !.pc = "failed"]
    /\ UNCHANGED <<pset, result, mem, prev>>

\* shutdown(), called after start() has returned Ok
Shutdown ==
    /\ call.pc = "started"
    /\ call.shutdowns < MaxShutdowns
    /\ call' = [call EXCEPT !.shutdowns = @ + 1]
    /\ mem' = send(mem)
    /\ UNCHANGED <<pset, result, prev>>

\* the server thread: let mut shutdown_rx = shutdown_tx.subscribe()
ServerSubscribe ==
    /\ result.pc = "spawned"
    /\ result' = [result EXCEPT !.pc = "select"]
    /\ mem' = subscribe(mem)
    /\ UNCHANGED <<pset, call, prev>>

\* select!: Ok((stream, _)) = listener.accept(), a task is spawned for it
ServerAccept ==
    /\ result.pc = "select"
    /\ result.accepted < MaxConnections
    /\ result' = [result EXCEPT !.accepted = @ + 1, !.open = @ + 1]
    /\ UNCHANGED <<pset, call, mem, prev>>

\* a connection task ends
ConnectionServed ==
    /\ result.pc = "select"
    /\ result.open > 0
    /\ result' = [result EXCEPT !.open = @ - 1]
    /\ UNCHANGED <<pset, call, mem, prev>>

\* select!: _ = shutdown_rx.recv(), the loop breaks
ServerRecvShutdown ==
    /\ result.pc = "select"
    /\ RecvReady(mem)
    /\ result' = [result EXCEPT !.pc = "stopped"]
    /\ mem' = [mem EXCEPT !.pending = 0, !.lagged = FALSE]
    /\ UNCHANGED <<pset, call, prev>>

NextDaemon ==
    \/ Start
    \/ StartFails
    \/ Shutdown
    \/ ServerSubscribe
    \/ ServerAccept
    \/ ConnectionServed
    \/ ServerRecvShutdown

\* the spawned thread runs: it reaches subscribe, and a ready recv() is
\* taken by select! sooner or later
SpecDaemon ==
    /\ InitDaemon
    /\ [][NextDaemon]_vars
    /\ WF_vars(ServerSubscribe)
    /\ WF_vars(ServerRecvShutdown)

----------------------------------------------------------------------------
(* SpecCli: one sighash request on a transaction, through the library's    *)
(* simplicity_sighash or through the client's sighash command              *)

InitCli ==
    /\ pset \in SighashTxArgs
    /\ call = NoCall
    /\ result = Ok(<<>>)
    /\ mem = None
    /\ prev = NoCall

CliArgs ==
    [input_idx : {DecStr(i) : i \in IndexArgs} \cup {Junk},
     cmr : {CmrToString(X)},
     control_block : ControlBlockArgs,
     genesis_hash : {None},
     secret_key : {None, Some(SkStr(1))},
     public_key : {None},
     signature : {None},
     input_utxos : InputUtxoArgs]

LibrarySighashCall ==
    /\ Idle
    /\ \E a \in CliArgs :
          /\ call' = [op |-> "simplicity_sighash"] @@ a
          /\ result' = simplicity_sighash(pset, a.input_idx, a.cmr, a.control_block,
                                          a.genesis_hash, a.secret_key, a.public_key,
                                          a.signature, a.input_utxos, 0).res
    /\ UNCHANGED <<pset, mem, prev>>

ExecInnerCall ==
    /\ Idle
    /\ \E a \in CliArgs :
          /\ call' = [op |-> "exec_inner"] @@ a
          /\ result' = exec_inner(pset, a.input_idx, a.cmr, a.control_block,
                                  a.genesis_hash, a.secret_key, a.public_key,
                                  a.signature, a.input_utxos, 0)
    /\ UNCHANGED <<pset, mem, prev>>

NextCli ==
    \/ LibrarySighashCall
    \/ ExecInnerCall

SpecCli == InitCli /\ [][NextCli]_vars

----------------------------------------------------------------------------
(* Spec: a caller's sequence of operations, starting from pset_create; the *)
(* caller keeps the PSET each successful operation returns (Continue)      *)

NoPset == <<"nothing">>
HoldsPset == ParsePset(pset).ok

Init ==
    /\ pset = NoPset
    /\ call = NoCall
    /\ result = Ok(<<>>)
    /\ mem = None
    /\ prev = NoCall

FlowOutputs(n) == [o \in 1..n |-> OutputSpec(AddrStr(UtxoFor(Y).script_pubkey, FALSE), PolicyAsset, 900)]
FlowPrograms == {Program(X, NoJets, FALSE), Program(Y, EqJets, FALSE)}

Create ==
    /\ Idle
    /\ ~HoldsPset
    /\ \E n \in 0..MaxInputs, m \in 0..MaxOutputs :
          LET ins == JsonStr(InputSpecsOf(n))
              outs == JsonStr(FlowOutputs(m))
              r == pset_create(ins, outs)
          IN
          /\ call' = [op |-> "pset_create", inputs_json |-> ins, outputs_json |-> outs]
          /\ result' = r.res
          /\ mem' = r.mem
    /\ UNCHANGED <<pset, prev>>

UpdateInput ==
    /\ Idle
    /\ HoldsPset
    /\ \E idx \in IndexArgs, u \in CmrIds, c \in CmrIds :
          LET args == [op |-> "pset_update_input", input_idx |-> DecStr(idx),
                       input_utxo |-> UtxoStr(UtxoFor(u)),
                       internal_key |-> Some(IkStr(InternalKey)),
                       cmr |-> Some(CmrToString(c)), state |-> None]
              r == pset_update_input(pset, args.input_idx, args.input_utxo,
                                     args.internal_key, args.cmr, args.state)
          IN
          /\ call' = args
          /\ result' = r.res
          /\ mem' = r.mem
    /\ UNCHANGED <<pset, prev>>

Finalize ==
    /\ Idle
    /\ HoldsPset
    /\ \E idx \in IndexArgs, prog \in FlowPrograms, wit \in {"accept", "reject"} :
          LET args == [op |-> "pset_finalize", input_idx |-> DecStr(idx),
                       program |-> ProgStr(prog), witness |-> WitStr(wit),
                       genesis_hash |-> None]
              r == pset_finalize(pset, args.input_idx, args.program, args.witness,
                                 args.genesis_hash)
          IN
          /\ call' = args
          /\ result' = r.res
          /\ mem' = r.mem
    /\ UNCHANGED <<pset, prev>>

Run ==
    /\ Idle
    /\ HoldsPset
    /\ \E idx \in IndexArgs, prog \in FlowPrograms, wit \in {"accept", "reject"} :
          LET args == [op |-> "pset_run", input_idx |-> DecStr(idx),
                       program |-> ProgStr(prog), witness |-> WitStr(wit),
                       genesis_hash |-> None]
              r == pset_run(pset, args.input_idx, args.program, args.witness,
                            args.genesis_hash)
          IN
          /\ call' = args
          /\ result' = r.res
          /\ mem' = r.mem
          /\ UNCHANGED <<pset, prev>>

Extract ==
    /\ Idle
    /\ HoldsPset
    /\ LET r == pset_extract(pset) IN
          /\ call' = [op |-> "pset_extract"]
          /\ result' = r.res
          /\ mem' = r.mem
    /\ UNCHANGED <<pset, prev>>

\* the caller reads the response and keeps the PSET it carries, if any
ReturnsPset(op) == op \in {"pset_create", "pset_update_input", "pset_finalize"}

Continue ==
    /\ ~Idle
    /\ pset' = IF result.ok /\ ReturnsPset(call.op) THEN result.val.pset ELSE pset
    /\ prev' = IF result.ok /\ ReturnsPset(call.op) THEN call ELSE prev
    /\ call' = NoCall
    /\ result' = Ok(<<>>)
    /\ mem' = None

Next ==
    \/ Create
    \/ UpdateInput
    \/ Finalize
    \/ Run
    \/ Extract
    \/ Continue

Spec == Init /\ [][Next]_vars

----------------------------------------------------------------------------
(* SpecFlow: the same sequences, with a record of the updates that have    *)
(* succeeded kept in prev: for each input, whether pset_update_input has   *)
(* succeeded on it, the CMRs it has succeeded with, and the last of them   *)

InputIndices == 0..(MaxInputs - 1)

NoUpdates ==
    [updated |-> [i \in InputIndices |-> FALSE],
     registered |-> [i \in InputIndices |-> {}],
     last |-> [i \in InputIndices |-> None]]

RecordUpdate(history, idx, cmr) ==
    [updated |-> [history.updated EXCEPT ![idx] = TRUE],
     registered |-> IF IsSome(cmr)
                    THEN [history.registered EXCEPT ![idx] = @ \cup {Unwrap(cmr)}]
                    ELSE history.registered,
     last |-> IF IsSome(cmr) THEN [history.last EXCEPT ![idx] = cmr] ELSE history.last]

InitFlow ==
    /\ pset = NoPset
    /\ call = NoCall
    /\ result = Ok(<<>>)
    /\ mem = None
    /\ prev = NoUpdates

\* pset_create with one output; the outputs play no part in the updates
CreateOneOutput ==
    /\ Idle
    /\ ~HoldsPset
    /\ \E n \in 0..MaxInputs :
          LET ins == JsonStr(InputSpecsOf(n))
              outs == JsonStr(FlowOutputs(1))
              r == pset_create(ins, outs)
          IN
          /\ call' = [op |-> "pset_create", inputs_json |-> ins, outputs_json |-> outs]
          /\ result' = r.res
          /\ mem' = r.mem
    /\ UNCHANGED <<pset, prev>>

\* pset_update_input with the UTXO alone (that of X): no internal key, no CMR
UpdateInputUtxoOnly ==
    /\ Idle
    /\ HoldsPset
    /\ \E idx \in IndexArgs, u \in {X} :
          LET args == [op |-> "pset_update_input", input_idx |-> DecStr(idx),
                       input_utxo |-> UtxoStr(UtxoFor(u)),
                       internal_key |-> None, cmr |-> None, state |-> None]
              r == pset_update_input(pset, args.input_idx, args.input_utxo,
                                     args.internal_key, args.cmr, args.state)
          IN
          /\ call' = args
          /\ result' = r.res
          /\ mem' = r.mem
    /\ UNCHANGED <<pset, prev>>

\* the caller keeps the PSET of a successful response; a successful
\* pset_update_input is entered in the record
ContinueRecording ==
    /\ ~Idle
    /\ pset' = IF result.ok /\ ReturnsPset(call.op) THEN result.val.pset ELSE pset
    /\ prev' = IF result.ok /\ call.op = "pset_update_input"
               THEN RecordUpdate(prev, ParseInt(call.input_idx).val,
                                 IF IsSome(call.cmr)
                                 THEN Some(ParseCmr(Unwrap(call.cmr)).val) ELSE None)
               ELSE prev
    /\ call' = NoCall
    /\ result' = Ok(<<>>)
    /\ mem' = None

NextFlow ==
    \/ CreateOneOutput
    \/ UpdateInput
    \/ UpdateInputUtxoOnly
    \/ Finalize
    \/ Run
    \/ Extract
    \/ ContinueRecording

SpecFlow == InitFlow /\ [][NextFlow]_vars

----------------------------------------------------------------------------
(* What the claims speak of *)

\* the PSET the caller supplied to the last call
Supplied == ParsePset(pset).val

IsEnvCall == call.op = "execution_environment"
IsProgramCall == call.op \in {"pset_finalize", "pset_run"}

\* the last call reached execution_environment: it is a direct call, or a
\* pset_finalize / pset_run whose PSET, index, program and witness all parsed
ReachesEnv ==
    \/ IsEnvCall
    \/ /\ IsProgramCall
       /\ HoldsPset
       /\ ParseInt(call.input_idx).ok
       /\ ProgramFromStr(call.program, Some(call.witness)).ok

\* the index and CMR execution_environment was called with
EnvIdx == IF IsEnvCall THEN call.input_idx ELSE ParseInt(call.input_idx).val
EnvCmr == IF IsEnvCall THEN call.cmr ELSE call.program[2].cmr

GenesisParses ==
    ~IsSome(call.genesis_hash) \/ ParseBlockHash(Unwrap(call.genesis_hash)).ok

\* the entries of an input that carry the Simplicity leaf of a CMR
Matching(input, cmr) ==
    {e \in input.tap_scripts :
        e.ver = SimplicityLeafVersion /\ Len(e.script) = CmrLen /\ e.script = CmrBytes(cmr)}

\* the one that comes last in ascending control-block order
LastMatching(input, cmr) ==
    CHOOSE e \in Matching(input, cmr) :
        \A f \in Matching(input, cmr) \ {e} : CbLess(f.cb, e.cb)

ErrKind(k) == ~result.ok /\ result.err.kind = k

\* the call got past leaf resolution
PastLeafResolution ==
    result.ok \/ result.err.kind \notin
        {"InputIndexOutOfRange", "GenesisHashParse", "MissingSimplicityLeaf"}

MissingUtxo(p) == {n \in 0..(Len(p.inputs) - 1) : ~IsSome(p.inputs[n + 1].witness_utxo)}
Lowest(S) == CHOOSE n \in S : \A m \in S : n <= m

----------------------------------------------------------------------------
(* C1 *)

\* C1: for every input_index >= n_inputs (also with zero inputs)
\* execution_environment fails with InputIndexOutOfRange{index, total}; so do
\* pset_finalize and pset_run once their arguments parsed, and whatever they
\* return for such an index is an error; the PSET copy is as supplied.
C1_OutOfRangeIndexFails ==
    /\ (HoldsPset /\ ReachesEnv /\ EnvIdx >= n_inputs(Supplied))
          => /\ result = Err([kind |-> "InputIndexOutOfRange", index |-> EnvIdx,
                              total |-> n_inputs(Supplied)])
             /\ mem = Some(Supplied)
    /\ (HoldsPset /\ IsProgramCall /\ ParseInt(call.input_idx).ok
          /\ ParseInt(call.input_idx).val >= n_inputs(Supplied))
          => (~result.ok /\ mem = Some(Supplied))

C1_Witness ==
    /\ HoldsPset
    /\ call.op = "pset_finalize"
    /\ ReachesEnv
    /\ n_inputs(Supplied) = 0
    /\ ErrKind("InputIndexOutOfRange")
    /\ result.err.index > result.err.total

----------------------------------------------------------------------------
(* C2 *)

\* C2: with an in-range index and a parsable genesis hash the call gets past
\* leaf resolution iff the target input's tap_scripts holds an entry with the
\* Simplicity leaf version and exactly the 32 CMR bytes; otherwise it fails
\* with MissingSimplicityLeaf naming that CMR.
C2_LeafFoundIffTargetHasIt ==
    (HoldsPset /\ ReachesEnv /\ EnvIdx < n_inputs(Supplied) /\ GenesisParses)
        => LET has == Matching(Supplied.inputs[EnvIdx + 1], EnvCmr) # {} IN
           /\ has <=> PastLeafResolution
           /\ ~has => result = Err([kind |-> "MissingSimplicityLeaf",
                                    cmr |-> HexStr(CmrBytes(EnvCmr))])

\* the target has the right bytes under another version and longer bytes under
\* the right version, while another input does hold the leaf
C2_Witness ==
    /\ HoldsPset
    /\ IsEnvCall
    /\ EnvIdx < n_inputs(Supplied)
    /\ GenesisParses
    /\ ErrKind("MissingSimplicityLeaf")
    /\ \E e \in Supplied.inputs[EnvIdx + 1].tap_scripts :
          e.script = CmrBytes(EnvCmr) /\ e.ver # SimplicityLeafVersion
    /\ \E e \in Supplied.inputs[EnvIdx + 1].tap_scripts :
          e.script # CmrBytes(EnvCmr) /\ e.ver = SimplicityLeafVersion
    /\ \E i \in 1..n_inputs(Supplied) :
          i # EnvIdx + 1 /\ Matching(Supplied.inputs[i], EnvCmr) # {}

----------------------------------------------------------------------------
(* C3 *)

\* C3: when several entries of the target input match the CMR, leaf
\* resolution does not fail, and what it returns (and puts in the environment,
\* and what simplicity_sighash looks up) is the control block and script of
\* the match that is last in ascending control-block order.
C3_LastMatchWins ==
    /\ (HoldsPset /\ ReachesEnv /\ EnvIdx < n_inputs(Supplied) /\ GenesisParses
          /\ Cardinality(Matching(Supplied.inputs[EnvIdx + 1], EnvCmr)) >= 2)
          => LET last == LastMatching(Supplied.inputs[EnvIdx + 1], EnvCmr) IN
             /\ PastLeafResolution
             /\ (IsEnvCall /\ result.ok)
                   => /\ result.val.control_block = last.cb
                      /\ result.val.tap_leaf = last.script
                      /\ result.val.tx_env.control_block = last.cb
             /\ (call.op = "pset_finalize" /\ result.ok)
                   => LET stack == Unwrap(ParsePset(result.val.pset).val
                                            .inputs[EnvIdx + 1].final_script_witness)
                      IN  stack[4] = SerializeControlBlock(last.cb)
    /\ (HoldsPset /\ call.op = "simplicity_sighash" /\ result.ok
          /\ ~IsSome(call.control_block)
          /\ Cardinality(Matching(Supplied.inputs[ParseInt(call.input_idx).val + 1],
                                  ParseCmr(call.cmr).val)) >= 2)
          => result.val.sighash[6] =
                 LastMatching(Supplied.inputs[ParseInt(call.input_idx).val + 1],
                              ParseCmr(call.cmr).val).cb

C3_Witness ==
    /\ HoldsPset
    /\ IsEnvCall
    /\ result.ok
    /\ Cardinality(Matching(Supplied.inputs[EnvIdx + 1], EnvCmr)) >= 3
    /\ result.val.control_block = CbC

----------------------------------------------------------------------------
(* C4 *)

\* C4: when the earlier steps pass (index in range, genesis hash parsable,
\* leaf present, transaction extractable), execution_environment succeeds only
\* if every input has witness_utxo, and otherwise fails with
\* MissingWitnessUtxo(n), n the lowest index of an input without it.
C4_EveryInputNeedsWitnessUtxo ==
    (HoldsPset /\ ReachesEnv /\ EnvIdx < n_inputs(Supplied) /\ GenesisParses
       /\ Matching(Supplied.inputs[EnvIdx + 1], EnvCmr) # {}
       /\ \A o \in 1..Len(Supplied.outputs) :
             IsSome(Supplied.outputs[o].asset) /\ IsSome(Supplied.outputs[o].amount))
        => /\ MissingUtxo(Supplied) # {}
                 => result = Err([kind |-> "MissingWitnessUtxo",
                                  index |-> Lowest(MissingUtxo(Supplied))])
           /\ (IsEnvCall /\ MissingUtxo(Supplied) = {}) => result.ok

\* the target input has its witness_utxo, a later input does not
C4_Witness ==
    /\ HoldsPset
    /\ IsEnvCall
    /\ EnvIdx = 0
    /\ n_inputs(Supplied) = 2
    /\ IsSome(Supplied.inputs[1].witness_utxo)
    /\ result = Err([kind |-> "MissingWitnessUtxo", index |-> 1])

----------------------------------------------------------------------------
(* C5 *)

\* C5: on success pset_finalize sets the target input's final_script_witness
\* to exactly four byte strings, in this order: the witness, the pruned
\* program, the leaf script (the program's 32 CMR bytes), and the serialized
\* control block that leaf resolution returned and put in the environment.
C5_FinalWitnessStack ==
    (HoldsPset /\ call.op = "pset_finalize" /\ result.ok)
        => LET q == ParsePset(result.val.pset).val
               stack == Unwrap(q.inputs[EnvIdx + 1].final_script_witness)
               env == execution_environment(Supplied, EnvIdx, EnvCmr, call.genesis_hash)
               pruned == Prune(Unwrap(redeem_node(
                             ProgramFromStr(call.program, Some(call.witness)).val)),
                             env.val.tx_env)
           IN
           /\ Len(stack) = 4
           /\ stack[1] = pruned.val.witness
           /\ stack[2] = pruned.val.prog
           /\ stack[3] = CmrBytes(EnvCmr) /\ Len(stack[3]) = CmrLen
           /\ stack[4] = SerializeControlBlock(
                  LastMatching(Supplied.inputs[EnvIdx + 1], EnvCmr).cb)
           /\ env.val.control_block = env.val.tx_env.control_block
           /\ stack[4] = SerializeControlBlock(env.val.tx_env.control_block)

\* the second input of a PSET is finalized
C5_Witness ==
    /\ HoldsPset
    /\ call.op = "pset_finalize"
    /\ result.ok
    /\ EnvIdx = 1
    /\ Len(Unwrap(ParsePset(result.val.pset).val.inputs[2].final_script_witness)) = 4
    /\ Unwrap(ParsePset(result.val.pset).val.inputs[2].final_script_witness)[3]
          = CmrBytes(EnvCmr)

----------------------------------------------------------------------------
(* C6 *)

\* C6: a successful pset_finalize returns the supplied PSET with nothing
\* changed but final_script_witness of the target input; a failed one, and
\* every execution_environment, pset_run, simplicity_sighash and pset_extract,
\* leaves the PSET as it was supplied.
C6_OnlyFinalizeWrites ==
    /\ (HoldsPset /\ call.op = "pset_finalize" /\ result.ok)
          => LET q == ParsePset(result.val.pset).val
                 t == EnvIdx + 1
             IN
             /\ mem = Some(q)
             /\ q.global = Supplied.global
             /\ q.outputs = Supplied.outputs
             /\ Len(q.inputs) = Len(Supplied.inputs)
             /\ \A i \in 1..Len(q.inputs) : i # t => q.inputs[i] = Supplied.inputs[i]
             /\ [q.inputs[t] EXCEPT !.final_script_witness =
                     Supplied.inputs[t].final_script_witness] = Supplied.inputs[t]
    /\ (HoldsPset /\ call.op = "pset_finalize" /\ ~result.ok) => mem = Some(Supplied)
    /\ (HoldsPset /\ call.op \in {"execution_environment", "pset_run",
                                  "simplicity_sighash", "pset_extract"})
          => mem = Some(Supplied)

\* the finalized input carries a leaf map and sits next to another input
C6_Witness ==
    /\ HoldsPset
    /\ call.op = "pset_finalize"
    /\ result.ok
    /\ n_inputs(Supplied) = 2
    /\ Supplied.inputs[EnvIdx + 1].tap_scripts # {}
    /\ IsSome(Supplied.inputs[EnvIdx + 1].witness_utxo)
    /\ mem # Some(Supplied)

----------------------------------------------------------------------------
(* C7 *)

Names(seq) == {seq[i] : i \in 1..Len(seq)}

\* the fields of the inputs of q that differ from those of p
ChangedInputFields(p, q) ==
    {f \in {"previous_output", "sequence", "witness_utxo", "final_script_witness",
            "tap_internal_key", "tap_merkle_root", "tap_scripts"} :
        \E i \in 1..Len(q.inputs) : q.inputs[i][f] # p.inputs[i][f]}

\* the fields pset_create fills in from the transaction it built
PopulatedFields(q) ==
    (IF Len(q.inputs) > 0 THEN {"previous_output", "sequence"} ELSE {})
    \cup (IF Len(q.outputs) > 0 THEN {"script_pubkey"} ELSE {})
    \cup (IF \E o \in 1..Len(q.outputs) : IsSome(q.outputs[o].asset)
          THEN {"asset"} ELSE {})
    \cup (IF \E o \in 1..Len(q.outputs) : IsSome(q.outputs[o].amount)
          THEN {"amount"} ELSE {})

\* pset_update_input and pset_finalize name every field they write
UpdatesAreNamed ==
    (HoldsPset /\ call.op \in {"pset_update_input", "pset_finalize"} /\ result.ok)
        => LET q == ParsePset(result.val.pset).val IN
           /\ q.global = Supplied.global
           /\ q.outputs = Supplied.outputs
           /\ Len(q.inputs) = Len(Supplied.inputs)
           /\ ChangedInputFields(Supplied, q) \subseteq Names(result.val.updated_values)

\* C7: every operation that returns an updated PSET names in updated_values
\* every field it set: pset_update_input and pset_finalize every field of the
\* returned PSET that differs from the supplied one, pset_create every field
\* it populated.
C7_EveryWrittenFieldIsNamed ==
    /\ UpdatesAreNamed
    /\ (call.op = "pset_create" /\ result.ok)
          => PopulatedFields(ParsePset(result.val.pset).val)
                 \subseteq Names(result.val.updated_values)

----------------------------------------------------------------------------
(* C8 *)

\* the PSET in hand has one input and one output, and the response the caller
\* last kept was a successful pset_update_input on input 0 with an internal
\* key and a CMR
AfterUpdateOfInput0 ==
    /\ HoldsPset
    /\ n_inputs(Supplied) = 1
    /\ Len(Supplied.outputs) = 1
    /\ prev.op = "pset_update_input"
    /\ prev.input_idx = DecStr(0)
    /\ IsSome(prev.internal_key)
    /\ IsSome(prev.cmr)

\* the call is a pset_finalize of input 0 with a program of the CMR just
\* registered and a witness the program accepts
FinalizesUpdatedInput ==
    /\ call.op = "pset_finalize"
    /\ call.input_idx = DecStr(0)
    /\ ParseCmr(Unwrap(prev.cmr)).val = call.program[2].cmr
    /\ call.witness = WitStr("accept")

\* C8: on a PSET of one input and one output made by pset_create, after a
\* successful pset_update_input of input 0 with an internal key and CMR X,
\* pset_finalize of input 0 with a program of CMR X and an accepted witness
\* succeeds, returns updated_values = ["final_script_witness"], leaves exactly
\* four witness elements on input 0, and pset_extract of the returned PSET
\* succeeds (also when the caller then makes that call).
C8_CreateUpdateFinalizeExtract ==
    /\ (AfterUpdateOfInput0 /\ FinalizesUpdatedInput)
          => /\ result.ok
             /\ result.val.updated_values = <<"final_script_witness">>
             /\ Len(Unwrap(ParsePset(result.val.pset).val
                             .inputs[1].final_script_witness)) = 4
             /\ pset_extract(result.val.pset).res.ok
             /\ Len(extract_tx(ParsePset(result.val.pset).val).val
                       .input[1].script_witness) = 4
    /\ (HoldsPset /\ prev.op = "pset_finalize" /\ call.op = "pset_extract")
          => result.ok

\* the sequence ran: the updated input was finalized and the returned PSET
\* extracts to a transaction whose input 0 carries the four elements
C8_Witness ==
    /\ AfterUpdateOfInput0
    /\ FinalizesUpdatedInput
    /\ result.ok
    /\ pset_extract(result.val.pset).res.ok
    /\ Len(pset_extract(result.val.pset).res.val[2].input[1].script_witness) = 4

----------------------------------------------------------------------------
(* C9, C10 *)

IsSighashCall == call.op = "simplicity_sighash"

\* the transaction, index, CMR, control block, UTXOs and genesis hash of the
\* call were accepted, so that the key and signature arguments are looked at
SighashEnvBuilt ==
    SighashEnv(pset, call.input_idx, call.cmr, call.control_block,
               call.genesis_hash, call.input_utxos).ok

\* secret_key and public_key were both supplied, both are keys, and the
\* x-only public key of secret_key is not public_key
KeysDisagree ==
    /\ IsSome(call.secret_key)
    /\ IsSome(call.public_key)
    /\ ParseSecretKey(Unwrap(call.secret_key)).ok
    /\ ParsePublicKey(Unwrap(call.public_key)).ok
    /\ XOnlyPublicKeyOf(ParseSecretKey(Unwrap(call.secret_key)).val)
          # ParsePublicKey(Unwrap(call.public_key)).val

SignatureReadable ==
    ~IsSome(call.signature) \/ ParseSignature(Unwrap(call.signature)).ok

\* C9: when secret_key and public_key are both supplied and the x-only key
\* derived from secret_key differs from public_key, simplicity_sighash fails
\* and returns no signature, with or without a signature argument; once the
\* environment is built and a supplied signature is readable the error is
\* PublicKeyMismatch carrying the derived and the provided key.
C9_PublicKeyMismatch ==
    (IsSighashCall /\ KeysDisagree)
        => /\ ~result.ok
           /\ (SighashEnvBuilt /\ SignatureReadable)
                 => result = Err([kind |-> "PublicKeyMismatch",
                                  derived |-> PkStr(XOnlyPublicKeyOf(
                                      ParseSecretKey(Unwrap(call.secret_key)).val)),
                                  provided |-> Unwrap(call.public_key)])

\* the keys disagree and a readable signature came along
C9_Witness ==
    /\ IsSighashCall
    /\ KeysDisagree
    /\ IsSome(call.signature)
    /\ SignatureReadable
    /\ SighashEnvBuilt
    /\ ErrKind("PublicKeyMismatch")
    /\ result.err.derived # result.err.provided

\* C10: simplicity_sighash with a signature and no public_key fails, with or
\* without a secret_key, and so returns neither sighash nor signature; once
\* the environment is built the error is SignatureWithoutPublicKey.
C10_SignatureWithoutPublicKey ==
    (IsSighashCall /\ IsSome(call.signature) /\ ~IsSome(call.public_key))
        => /\ ~result.ok
           /\ SighashEnvBuilt => result = Err([kind |-> "SignatureWithoutPublicKey"])

\* with a secret key that would have signed
C10_Witness ==
    /\ IsSighashCall
    /\ IsSome(call.signature)
    /\ ~IsSome(call.public_key)
    /\ IsSome(call.secret_key)
    /\ ParseSecretKey(Unwrap(call.secret_key)).ok
    /\ SighashEnvBuilt
    /\ result = Err([kind |-> "SignatureWithoutPublicKey"])

----------------------------------------------------------------------------
(* C11 *)

\* the sighash of the environment the call built
CallSighash ==
    sighash_all(SighashEnv(pset, call.input_idx, call.cmr, call.control_block,
                           call.genesis_hash, call.input_utxos).val)

\* public_key and signature were supplied and are a key and a signature, and
\* no secret_key was
VerifyOnly ==
    /\ IsSighashCall
    /\ ~IsSome(call.secret_key)
    /\ IsSome(call.public_key)
    /\ IsSome(call.signature)
    /\ ParsePublicKey(Unwrap(call.public_key)).ok
    /\ ParseSignature(Unwrap(call.signature)).ok

\* the signature is one that the holder of the secret key of pk made over msg
SignedBy(sig, msg, pk) ==
    \E sk \in SecretKeys, aux \in {0, 1} :
        XOnlyPublicKeyOf(sk) = pk /\ sig = sign_schnorr(msg, sk, aux)

\* C11: with a public key and a signature supplied and no secret_key, once
\* the environment is built simplicity_sighash succeeds with valid_signature =
\* Some(b), b being true exactly when the signature is one over the sighash
\* under that public key; a signature that does not verify gives Some(false),
\* not an error.
C11_ValidSignatureReported ==
    (VerifyOnly /\ SighashEnvBuilt)
        => /\ result.ok
           /\ result.val.sighash = CallSighash
           /\ result.val.valid_signature =
                 Some(SignedBy(ParseSignature(Unwrap(call.signature)).val,
                               CallSighash,
                               ParsePublicKey(Unwrap(call.public_key)).val))

\* a signature under the supplied key, but over another message
C11_Witness ==
    /\ VerifyOnly
    /\ SighashEnvBuilt
    /\ ParseSignature(Unwrap(call.signature)).val.pk
          = ParsePublicKey(Unwrap(call.public_key)).val
    /\ result.ok
    /\ result.val.valid_signature = Some(FALSE)

----------------------------------------------------------------------------
(* C12 *)

\* C12: in every successful simplicity_sighash result, signature is present
\* iff secret_key was supplied and valid_signature is present iff public_key
\* and signature both were; with none of the three the result is the sighash
\* alone, and with secret_key alone it is the sighash and a signature over it
\* under the key derived from secret_key.
C12_ResultFieldsFollowArguments ==
    (IsSighashCall /\ result.ok)
        => /\ result.val.sighash = CallSighash
           /\ IsSome(result.val.signature) <=> IsSome(call.secret_key)
           /\ IsSome(result.val.valid_signature)
                 <=> (IsSome(call.public_key) /\ IsSome(call.signature))
           /\ IsSome(call.secret_key)
                 => /\ Unwrap(result.val.signature).msg = result.val.sighash
                    /\ Unwrap(result.val.signature).pk =
                          XOnlyPublicKeyOf(ParseSecretKey(Unwrap(call.secret_key)).val)
           /\ (~IsSome(call.secret_key) /\ ~IsSome(call.public_key)
                  /\ ~IsSome(call.signature))
                 => result.val = [sighash |-> CallSighash, signature |-> None,
                                  valid_signature |-> None]

\* secret_key alone
C12_Witness ==
    /\ IsSighashCall
    /\ result.ok
    /\ IsSome(call.secret_key)
    /\ ~IsSome(call.public_key)
    /\ ~IsSome(call.signature)
    /\ IsSome(result.val.signature)
    /\ ~IsSome(result.val.valid_signature)

----------------------------------------------------------------------------
(* C13 *)

\* the PSET's inputs all carry a witness_utxo
EveryInputHasWitnessUtxo ==
    \A i \in 1..n_inputs(Supplied) : IsSome(Supplied.inputs[i].witness_utxo)

\* the UTXO strings of the call parse to the very UTXOs the PSET's
\* witness_utxo fields hold
SuppliedUtxosEqualDerived ==
    /\ HoldsPset
    /\ EveryInputHasWitnessUtxo
    /\ IsSome(call.input_utxos)
    /\ ParseUtxos(Unwrap(call.input_utxos), <<>>)
          = WitnessUtxos(Supplied.inputs, 0, <<>>)

\* the environment of the call, had it been given these input_utxos
EnvWithUtxos(input_utxos) ==
    SighashEnv(pset, call.input_idx, call.cmr, call.control_block,
               call.genesis_hash, input_utxos)

\* C13: for the same transaction, index, CMR, control block and genesis hash,
\* simplicity_sighash given UTXO strings that parse to the PSET's witness_utxo
\* fields and simplicity_sighash deriving the UTXOs from the PSET build the
\* same environment and return the same sighash; and the sighash of a result
\* is that of the environment, whatever secret_key, public_key and signature
\* were.
C13_SighashDeterminism ==
    /\ (IsSighashCall /\ SuppliedUtxosEqualDerived)
          => /\ EnvWithUtxos(call.input_utxos) = EnvWithUtxos(None)
             /\ result.ok => result.val.sighash = sighash_all(EnvWithUtxos(None).val)
    /\ (IsSighashCall /\ result.ok)
          => result.val.sighash = sighash_all(EnvWithUtxos(call.input_utxos).val)

\* the UTXO of the PSET's input was given as a string, and a key came along
C13_Witness ==
    /\ IsSighashCall
    /\ SuppliedUtxosEqualDerived
    /\ n_inputs(Supplied) = 1
    /\ IsSome(call.secret_key)
    /\ result.ok
    /\ result.val.sighash = sighash_all(EnvWithUtxos(None).val)

----------------------------------------------------------------------------
(* C14 *)

\* the transaction of the call, extracted from the PSET or decoded from hex
CallTx ==
    IF ParsePset(pset).ok THEN extract_tx(ParsePset(pset).val) ELSE ParseTxHex(pset)

\* every optional argument that decides how the environment is built is
\* usable: a supplied control block parses and a missing one can be looked up
\* in a PSET; supplied UTXOs parse, one per input, and missing ones can be
\* taken from a PSET; a supplied genesis hash parses
UsableOptionals ==
    /\ IF IsSome(call.control_block)
       THEN ParseControlBlock(Unwrap(call.control_block)).ok
       ELSE ParsePset(pset).ok
    /\ IF IsSome(call.input_utxos)
       THEN /\ ParseUtxos(Unwrap(call.input_utxos), <<>>).ok
            /\ Len(Unwrap(call.input_utxos)) = Len(CallTx.val.input)
       ELSE /\ ParsePset(pset).ok
            /\ WitnessUtxos(ParsePset(pset).val.inputs, 0, <<>>).ok
    /\ GenesisParses

\* the transaction, the index and the CMR of the call were accepted, the
\* optional arguments are usable and the index names no input of the
\* transaction
IndexBeyondInputs ==
    /\ IsSighashCall
    /\ CallTx.ok
    /\ ParseInt(call.input_idx).ok
    /\ ParseCmr(call.cmr).ok
    /\ UsableOptionals
    /\ ParseInt(call.input_idx).val >= Len(CallTx.val.input)

\* C14: simplicity_sighash with input_index >= the number of transaction
\* inputs fails with InputIndexOutOfRange carrying the index and the input
\* count, whether the control block is supplied or looked up, whether the
\* UTXOs are supplied or derived, whether the transaction is a PSET or raw
\* hex; no sighash is computed for such an index.
C14_OutOfRangeIndexAlwaysReported ==
    IndexBeyondInputs
        => /\ ~result.ok
           /\ result.err = [kind |-> "InputIndexOutOfRange",
                            index |-> ParseInt(call.input_idx).val,
                            n_inputs |-> Len(CallTx.val.input)]

----------------------------------------------------------------------------
(* C15, C16 *)

\* c1b16ae2...71a7, digit by digit
LiquidTestnetGenesisHex ==
    <<"c", "1", "b", "1", "6", "a", "e", "2", "4", "f", "2", "4", "2", "3", "a", "e",
      "a", "2", "e", "a", "3", "4", "5", "5", "2", "2", "9", "2", "7", "9", "3", "b",
      "5", "b", "5", "e", "8", "2", "9", "9", "9", "a", "1", "e", "e", "d", "8", "1",
      "d", "5", "6", "a", "e", "e", "5", "2", "8", "e", "d", "a", "7", "1", "a", "7">>

\* 000000000019d668...0a8ce26f, digit by digit
BitcoinGenesisHex ==
    <<"0", "0", "0", "0", "0", "0", "0", "0", "0", "0", "1", "9", "d", "6", "6", "8",
      "9", "c", "0", "8", "5", "a", "e", "1", "6", "5", "8", "3", "1", "e", "9", "3",
      "4", "f", "f", "7", "6", "3", "a", "e", "4", "6", "a", "2", "a", "6", "c", "1",
      "7", "2", "b", "3", "f", "1", "b", "6", "0", "a", "8", "c", "e", "2", "6", "f">>

LiquidTestnetGenesisHash == FromHex(LiquidTestnetGenesisHex).val
BitcoinGenesisHash == FromHex(BitcoinGenesisHex).val

\* the environment execution_environment builds for the call: the result of
\* a direct call, the value pset_finalize and pset_run go on with
CallEnv ==
    IF IsEnvCall THEN result
    ELSE execution_environment(Supplied, EnvIdx, EnvCmr, call.genesis_hash)

\* the call carries a genesis_hash argument
TakesGenesis == IsEnvCall \/ IsProgramCall \/ IsSighashCall

\* the genesis_hash argument is absent, or the hex of 32 bytes
GenesisWellFormed ==
    \/ ~IsSome(call.genesis_hash)
    \/ /\ Unwrap(call.genesis_hash)[1] = "hex"
       /\ Len(Unwrap(call.genesis_hash)[2]) = HashLen

\* the genesis hash the call is to use: the supplied one, or the default
ExpectedGenesis ==
    IF IsSome(call.genesis_hash) THEN Reverse(Unwrap(call.genesis_hash)[2])
    ELSE LiquidTestnetGenesisHash

BothEntryPointsBuild ==
    /\ IsSighashCall
    /\ HoldsPset
    /\ ~IsSome(call.genesis_hash)
    /\ result.ok
    /\ execution_environment(Supplied, ParseInt(call.input_idx).val,
                             ParseCmr(call.cmr).val, None).ok

\* the genesis hash of execution_environment on the inputs of the call
EnvGenesisOfCall ==
    execution_environment(Supplied, ParseInt(call.input_idx).val,
                          ParseCmr(call.cmr).val, None).val.tx_env.genesis_hash

----------------------------------------------------------------------------
(* C17 *)

IsExplicit(utxo) == utxo.asset[1] = "explicit" /\ utxo.value[1] = "explicit"

\* C17: for every UTXO d with an explicit asset and an explicit value, the
\* string format(d) is accepted by parse_elements_utxo, parses to d, and is
\* what format gives for the parsed UTXO: format(parse(format(d))) =
\* format(d).
C17_UtxoRoundTrip ==
    /\ (call.op = "parse_elements_utxo" /\ prev.op = "format" /\ IsExplicit(prev.utxo))
          => /\ result.ok
             /\ result.val = prev.utxo
             /\ IsExplicit(result.val)
    /\ (call.op = "reformat" /\ prev.op = "format" /\ IsExplicit(prev.utxo))
          => result.val = call.s

\* a UTXO of 1.23456789 BTC went through format, parse and format again
C17_Witness ==
    /\ call.op = "reformat"
    /\ prev.op = "format"
    /\ IsExplicit(prev.utxo)
    /\ prev.utxo.value[2] = 123456789
    /\ prev.utxo.script_pubkey # <<>>
    /\ result.val = UtxoStr(prev.utxo)

----------------------------------------------------------------------------
(* C18, C19 *)

IsTrackCall == call.op = "track_jet_call"

\* the record the last call appended
LastJetCall == mem[Len(mem)]

EqName(name) ==
    /\ Len(name) >= 3
    /\ name[1] = "e" /\ name[2] = "q" /\ name[3] = "_"
    /\ name # <<"e", "q", "_", "1">>
    /\ name # <<"e", "q", "_", "2">>

\* C18: a record of the tracker has equality_check present exactly when its
\* jet name starts with "eq_" and is neither "eq_1" nor "eq_2"; when present
\* it is (left, right) with left followed by right being input_hex and each
\* half as long as input_hex.
C18_EqualityOperands ==
    \A i \in 1..Len(mem) :
        LET r == mem[i] IN
        /\ IsSome(r.equality_check) <=> EqName(r.jet)
        /\ IsSome(r.equality_check)
              => LET left == Unwrap(r.equality_check)[1]
                     right == Unwrap(r.equality_check)[2]
                 IN  /\ left \o right = r.input_hex
                     /\ Len(left) = Len(right)
                     /\ 2 * Len(left) = Len(r.input_hex)

\* eq_1 was tracked without operands, then eq_256 with two non-empty ones
C18_Witness ==
    /\ IsTrackCall
    /\ Len(mem) = 2
    /\ mem[1].jet = <<"e", "q", "_", "1">>
    /\ ~IsSome(mem[1].equality_check)
    /\ mem[2].jet = <<"e", "q", "_", "2", "5", "6">>
    /\ IsSome(mem[2].equality_check)
    /\ Unwrap(mem[2].equality_check)[1] # <<>>
    /\ Unwrap(mem[2].equality_check)[1] # Unwrap(mem[2].equality_check)[2]

LowerHexChars == {"0", "1", "2", "3", "4", "5", "6", "7", "8", "9",
                  "a", "b", "c", "d", "e", "f"}

\* hex is the words of buffer from the last to the first, the bytes of each
\* word from the most significant to the least, two lower-case digits a byte
IsReversedWordHex(hex, buffer) ==
    /\ Len(hex) = Len(buffer) * WordBytes * 2
    /\ \A c \in 1..Len(hex) : hex[c] \in LowerHexChars
    /\ \A j \in 1..Len(buffer), k \in 1..WordBytes :
          LET word == buffer[Len(buffer) + 1 - j]
              byte == (word \div Pow256(WordBytes - k)) % 256
              at == ((j - 1) * WordBytes + (k - 1)) * 2
          IN  16 * DigitVal(hex[at + 1]) + DigitVal(hex[at + 2]) = byte

\* C19: input_hex and output_hex of a record are the words of the buffer in
\* reverse order, each word's bytes in big-endian order, each byte as two
\* lower-case hex digits; the length is n * (bytes per word) * 2 and an empty
\* buffer gives the empty string.
C19_BufferEncoding ==
    IsTrackCall
        => /\ IsReversedWordHex(LastJetCall.input_hex, call.input_buffer)
           /\ IsReversedWordHex(LastJetCall.output_hex, call.output_buffer)
           /\ call.input_buffer = <<>> => LastJetCall.input_hex = <<>>
           /\ call.output_buffer = <<>> => LastJetCall.output_hex = <<>>
           /\ LastJetCall.jet = call.jet /\ LastJetCall.success = call.success

\* a three-word input and a two-word output were written out
C19_Witness ==
    /\ IsTrackCall
    /\ call.input_buffer = <<0, 65535, 4660>>
    /\ LastJetCall.input_hex
          = <<"1", "2", "3", "4", "f", "f", "f", "f", "0", "0", "0", "0">>
    /\ call.output_buffer = <<1, 61455>>
    /\ LastJetCall.output_hex = <<"f", "0", "0", "f", "0", "0", "0", "1">>

----------------------------------------------------------------------------
(* C20 *)

IsDecodeCall == call.op = "hex_or_base64"

\* an even number of characters, all of them among 0-9 and a-f
IsLowerHex(s) == Len(s) % 2 = 0 /\ \A i \in 1..Len(s) : s[i] \in LowerHexChars

\* C20: hex_or_base64(s) decodes s as hex whenever s has even length and
\* consists of lower-case hex characters only (0-9 and a-f), and as base64,
\* with that decoder's error on failure, in every other case; "00ff" is
\* decoded as hex.
C20_LowerHexIsDecodedAsHex ==
    IsDecodeCall
        => /\ IsLowerHex(call.s) => result = Ok(HexBytes(call.s))
           /\ ~IsLowerHex(call.s) => result = Base64Decode(call.s)
           /\ call.s = <<"0", "0", "f", "f">> => result = Ok(<<0, 255>>)


----------------------------------------------------------------------------
(* C21 *)

IsFromStrCall == call.op = "from_str"

\* the same program string read without a witness
WithoutWitness == from_str(call.prog_b64, None)

\* C21: whenever Program::from_str succeeds, it succeeds on the same program
\* string without a witness too and reports the same CMR; redeem_node(),
\* amr() and ihr() are Some exactly when a witness argument was supplied, the
\* empty string included, and None when it was omitted.
C21_CmrWithOrWithoutWitness ==
    (IsFromStrCall /\ result.ok)
        => /\ WithoutWitness.ok
           /\ ProgramCmr(result.val) = ProgramCmr(WithoutWitness.val)
           /\ IsSome(redeem_node(result.val)) <=> IsSome(call.wit_hex)
           /\ IsSome(amr(result.val)) <=> IsSome(call.wit_hex)
           /\ IsSome(ihr(result.val)) <=> IsSome(call.wit_hex)
           /\ ~IsSome(redeem_node(WithoutWitness.val))
           /\ amr(WithoutWitness.val) = None
           /\ ihr(WithoutWitness.val) = None

\* a program read with the empty string as its witness: it has a redeem node
C21_Witness ==
    /\ IsFromStrCall
    /\ call.wit_hex = Some(<<>>)
    /\ result.ok
    /\ IsSome(amr(result.val))
    /\ IsSome(ihr(result.val))
    /\ ProgramCmr(result.val) = ProgramCmr(WithoutWitness.val)


----------------------------------------------------------------------------
(* C22 *)

IsUpdateCall == call.op = "pset_update_input"

\* pset_update_input was given an internal key and a CMR, and every argument
\* parsed
UpdateWithKeyAndCmr ==
    /\ IsUpdateCall
    /\ IsSome(call.internal_key)
    /\ IsSome(call.cmr)
    /\ ParseInternalKey(Unwrap(call.internal_key)).ok
    /\ ParseCmr(Unwrap(call.cmr)).ok
    /\ parse_elements_utxo(call.input_utxo).ok
    /\ IsSome(call.state) => ParseState(Unwrap(call.state)).ok

\* the output key of (internal key, state, CMR)
ImpliedOutputKey ==
    OutputKey(ParseInternalKey(Unwrap(call.internal_key)).val,
              ParseCmr(Unwrap(call.cmr)).val,
              IF IsSome(call.state) THEN Some(ParseState(Unwrap(call.state)).val) ELSE None)

SuppliedScriptPubkey == parse_elements_utxo(call.input_utxo).val.script_pubkey

\* the call gets as far as the comparison of the two keys
UpdateReachesKeyCheck ==
    /\ UpdateWithKeyAndCmr
    /\ ParsePset(pset).ok
    /\ ParseInt(call.input_idx).ok
    /\ ParseInt(call.input_idx).val < n_inputs(ParsePset(pset).val)
    /\ is_v1_p2tr(SuppliedScriptPubkey)

\* C22: pset_update_input given an internal key and a CMR never succeeds
\* when the output key of (internal key, state, CMR) differs from the key in
\* the supplied UTXO's scriptPubKey; when the call gets as far as comparing
\* them it fails with OutputKeyMismatch naming both, and since it returns
\* an error it returns no PSET: the PSET the caller holds is what it was.
C22_OutputKeyMismatchIsAnError ==
    /\ (UpdateWithKeyAndCmr /\ ImpliedOutputKey # WitnessProgram(SuppliedScriptPubkey))
          => ~result.ok
    /\ (UpdateReachesKeyCheck /\ ImpliedOutputKey # WitnessProgram(SuppliedScriptPubkey))
          => result = Err([kind |-> "OutputKeyMismatch",
                           output_key |-> ImpliedOutputKey,
                           script_pubkey |-> SuppliedScriptPubkey])
    /\ (IsUpdateCall /\ ~result.ok) => "pset" \notin DOMAIN result

\* the two keys differ on an input that had no internal key: the key was
\* written to the PSET in memory, and the caller gets the error alone
C22_Witness ==
    /\ UpdateReachesKeyCheck
    /\ ImpliedOutputKey # WitnessProgram(SuppliedScriptPubkey)
    /\ result = Err([kind |-> "OutputKeyMismatch",
                     output_key |-> ImpliedOutputKey,
                     script_pubkey |-> SuppliedScriptPubkey])
    /\ ~IsSome(ParsePset(pset).val.inputs[ParseInt(call.input_idx).val + 1].tap_internal_key)
    /\ IsSome(Unwrap(mem).inputs[ParseInt(call.input_idx).val + 1].tap_internal_key)


----------------------------------------------------------------------------
(* C23 *)

\* fewer requests than the counter has values
BelowWrapAround == Len(prev) < IdModulus

\* the threads that hold an id
InCall == {t \in Threads : call[t].pc # "idle"}

\* C23: while fewer than 2^IdBits requests were made on a client, the ids
\* handed out are 1, 2, 3, ... in the order of the calls to next_id, so
\* strictly increasing, and no two threads in a call hold the same id.
C23_RequestIdsUnique ==
    BelowWrapAround
        => /\ \A i \in 1..Len(prev) : prev[i] = i
           /\ \A i, j \in 1..Len(prev) : i < j => prev[i] < prev[j]
           /\ \A t, u \in InCall : t # u => call[t].id # call[u].id
           /\ \A id \in DOMAIN result : result[id] <= 1

\* three threads are in a call at once, each with its own id, and the
\* thread that asked last is the first to have sent its request
C23_Witness ==
    /\ BelowWrapAround
    /\ InCall = Threads
    /\ call[3].id = 1 /\ call[1].id = 2 /\ call[2].id = 3
    /\ call[2].pc = "wait" /\ call[3].pc = "send"
    /\ Len(prev) = 3


----------------------------------------------------------------------------
(* C24 *)

\* the five checks of execution_environment, each told from the arguments
IndexOutOfRange == EnvIdx >= n_inputs(Supplied)
LeafMissing == Matching(Supplied.inputs[EnvIdx + 1], EnvCmr) = {}
ExtractFails ==
    \E o \in 1..Len(Supplied.outputs) :
        ~IsSome(Supplied.outputs[o].asset) \/ ~IsSome(Supplied.outputs[o].amount)
SomeUtxoMissing == MissingUtxo(Supplied) # {}

\* pset_finalize or pset_run got as far as pruning or running the program
PrunedOrExecuted ==
    /\ IsProgramCall
    /\ result.ok \/ result.err.kind \in {"ProgramPrune", "BitMachineConstruction"}

\* C24: execution_environment checks, in this order, the index bounds, the
\* genesis hash, the Simplicity leaf, the extraction of the transaction and
\* the witness UTXOs, and returns the error of the first check that fails,
\* whatever the later ones would say; pset_finalize and pset_run prune or
\* execute only when all five passed.
C24_ChecksInOrder ==
    /\ ReachesEnv =>
          /\ IndexOutOfRange => ErrKind("InputIndexOutOfRange")
          /\ (~IndexOutOfRange /\ ~GenesisWellFormed) => ErrKind("GenesisHashParse")
          /\ (~IndexOutOfRange /\ GenesisWellFormed /\ LeafMissing)
                => ErrKind("MissingSimplicityLeaf")
          /\ (~IndexOutOfRange /\ GenesisWellFormed /\ ~LeafMissing /\ ExtractFails)
                => ErrKind("PsetExtract")
          /\ (~IndexOutOfRange /\ GenesisWellFormed /\ ~LeafMissing /\ ~ExtractFails
                 /\ SomeUtxoMissing)
                => ErrKind("MissingWitnessUtxo")
    /\ PrunedOrExecuted =>
          /\ ~IndexOutOfRange
          /\ GenesisWellFormed
          /\ ~LeafMissing
          /\ ~ExtractFails
          /\ ~SomeUtxoMissing

\* pset_run on an input that has neither the leaf nor a witness_utxo, in a
\* PSET whose transaction cannot be extracted: the leaf is what is reported
C24_Witness ==
    /\ call.op = "pset_run"
    /\ ReachesEnv
    /\ ~IndexOutOfRange
    /\ GenesisWellFormed
    /\ LeafMissing
    /\ ExtractFails
    /\ EnvIdx \in MissingUtxo(Supplied)
    /\ ErrKind("MissingSimplicityLeaf")

\* an out-of-range index together with a malformed genesis hash
C24_WitnessIndexBeforeGenesis ==
    /\ ReachesEnv
    /\ IndexOutOfRange
    /\ ~GenesisWellFormed
    /\ ErrKind("InputIndexOutOfRange")


----------------------------------------------------------------------------
(* C25 *)

\* pset_run built the execution environment of its input
RunReachesMachine ==
    /\ call.op = "pset_run"
    /\ ReachesEnv
    /\ CallEnv.ok

RunProgram == call.program[2]
WitnessAccepted == call.witness[2] = "accept"

\* the jets of the program that fail in this run, by position
FailingJets ==
    {i \in 1..Len(RunProgram.jets) : RunProgram.jets[i].guarded /\ ~WitnessAccepted}

\* the jet calls the run makes: up to the first failing one, included
CallsMade ==
    IF FailingJets = {} THEN Len(RunProgram.jets) ELSE Lowest(FailingJets)

\* C25: once pset_run has its execution environment, a program the bit
\* machine cannot be built for gives the error BitMachineConstruction and no
\* jets list; otherwise the call succeeds and jets holds one record per jet
\* call made, in call order, each with the jet's name and whether it
\* succeeded, the calls of a failing run included; success is true exactly
\* when the run ended without an execution error.
C25_JetsInCallOrder ==
    RunReachesMachine =>
        /\ RunProgram.oversized => result = Err([kind |-> "BitMachineConstruction"])
        /\ ~RunProgram.oversized =>
              /\ result.ok
              /\ Len(result.val.jets) = CallsMade
              /\ \A i \in 1..CallsMade :
                    /\ result.val.jets[i].jet = RunProgram.jets[i].name
                    /\ result.val.jets[i].success = (i \notin FailingJets)
                    /\ result.val.jets[i].input_hex = BufferHex(RunProgram.jets[i].input)
              /\ result.val.success = (WitnessAccepted /\ FailingJets = {})

\* a run whose second jet call fails: both calls are returned, the first as
\* a success, and the run as a failure
C25_Witness ==
    /\ RunReachesMachine
    /\ result.ok
    /\ ~result.val.success
    /\ Len(result.val.jets) = 2
    /\ result.val.jets[1].success
    /\ ~result.val.jets[2].success
    /\ result.val.jets[1].jet # result.val.jets[2].jet


----------------------------------------------------------------------------
(* C26 *)

IsSighashEntry == call.op \in {"simplicity_sighash", "exec_inner"}

\* the call got as far as counting its input UTXOs, which were supplied and
\* are not as many as the transaction has inputs
UtxoCountDiffers ==
    /\ IsSighashEntry
    /\ CallTx.ok
    /\ ParseInt(call.input_idx).ok
    /\ ParseCmr(call.cmr).ok
    /\ SighashControlBlock(ParsePset(pset), ParseInt(call.input_idx).val,
                           ParseCmr(call.cmr).val, call.control_block).ok
    /\ IsSome(call.input_utxos)
    /\ ParseUtxos(Unwrap(call.input_utxos), <<>>).ok
    /\ Len(Unwrap(call.input_utxos)) # Len(CallTx.val.input)

\* C26: a sighash request whose input UTXOs are not as many as the
\* transaction's inputs returns the error InputUtxoCountMismatch with
\* expected = the number of inputs and actual = the number of UTXOs; it
\* computes no sighash and does not panic.
C26_UtxoCountMismatchIsReturned ==
    UtxoCountDiffers
        => result = Err([kind |-> "InputUtxoCountMismatch",
                         expected |-> Len(CallTx.val.input),
                         actual |-> Len(Unwrap(call.input_utxos))])

\* the same, of the library's simplicity_sighash alone
C26_LibraryReturnsTheError ==
    (UtxoCountDiffers /\ IsSighashCall)
        => result = Err([kind |-> "InputUtxoCountMismatch",
                         expected |-> Len(CallTx.val.input),
                         actual |-> Len(Unwrap(call.input_utxos))])


----------------------------------------------------------------------------
(* C27 *)

IsCreateTransaction == call.op = "create_transaction" /\ IsSome(call.info.outputs)

InfoOutputs == Unwrap(call.info.outputs)

\* the output takes its script from an address
PaysToAddress(output) ==
    /\ IsSome(output.script_pub_key)
    /\ ~IsSome(Unwrap(output.script_pub_key).hex)
    /\ ~IsSome(Unwrap(output.script_pub_key).asm)
    /\ IsSome(Unwrap(output.script_pub_key).address)

NetworkOf(output) == Unwrap(Unwrap(output.script_pub_key).address).params

\* every output has a value and an asset and pays to an address of a known
\* network, and two of them pay to addresses of different networks
OutputsMixNetworks ==
    /\ IsCreateTransaction
    /\ \A i \in 1..Len(InfoOutputs) :
          /\ IsSome(InfoOutputs[i].value)
          /\ IsSome(InfoOutputs[i].asset)
          /\ PaysToAddress(InfoOutputs[i])
          /\ NetworkOf(InfoOutputs[i]) \in Networks
    /\ \E i, j \in 1..Len(InfoOutputs) : NetworkOf(InfoOutputs[i]) # NetworkOf(InfoOutputs[j])

\* C27: create_transaction fails with MixedNetworks whenever two outputs of
\* the transaction carry addresses of two different networks.
C27_MixedNetworksRejected ==
    OutputsMixNetworks => result = Err([kind |-> "MixedNetworks"])

\* create_transaction returns MixedNetworks for no TransactionInfo
C27_MixedNetworksNeverReturned ==
    call.op = "create_transaction" => result # Err([kind |-> "MixedNetworks"])


----------------------------------------------------------------------------
(* C28 *)

UpdatedInput == ParseInt(call.input_idx).val
UpdatedCmr == ParseCmr(Unwrap(call.cmr)).val
UpdateSucceededWithCmr == IsUpdateCall /\ result.ok /\ IsSome(call.cmr)

\* the leaf pset_update_input computes from its arguments
UpdatedLeaf ==
    [cb |-> taproot_spend_info(ParseInternalKey(Unwrap(call.internal_key)).val,
                               IF IsSome(call.state)
                               THEN Some(ParseState(Unwrap(call.state)).val) ELSE None,
                               UpdatedCmr).control_block,
     script |-> CmrBytes(UpdatedCmr),
     ver |-> SimplicityLeafVersion]

\* after a successful pset_update_input with a CMR the input's tap_scripts is
\* the one leaf of that CMR
C28_UpdateReplacesTapScripts ==
    UpdateSucceededWithCmr =>
        ParsePset(result.val.pset).val.inputs[UpdatedInput + 1].tap_scripts = {UpdatedLeaf}

IsFinalizeOrRun == call.op \in {"pset_finalize", "pset_run"}
TargetInput == ParseInt(call.input_idx).val
TargetCmr == ProgramCmr(ProgramFromStr(call.program, Some(call.witness)).val)

\* finalize or run on an input where TargetCmr was registered and another
\* CMR was registered after it
LeafWasReplaced ==
    /\ IsFinalizeOrRun
    /\ TargetInput < n_inputs(ParsePset(pset).val)
    /\ TargetCmr \in prev.registered[TargetInput]
    /\ prev.last[TargetInput] # Some(TargetCmr)

\* C28: a successful pset_update_input with a CMR leaves exactly one entry in
\* the input's tap_scripts, the leaf of that CMR with its control block, and
\* discards what was there; so after update_input with X and then with Y # X
\* on the same input, pset_finalize and pset_run with a program of CMR X fail
\* with MissingSimplicityLeaf.
C28_OnlyTheLastLeafRemains ==
    /\ C28_UpdateReplacesTapScripts
    /\ LeafWasReplaced =>
          result = Err([kind |-> "MissingSimplicityLeaf", cmr |-> CmrToString(TargetCmr)])

C28_Witness ==
    /\ LeafWasReplaced
    /\ call.op = "pset_finalize"
    /\ TargetCmr = X
    /\ prev.last[TargetInput] = Some(Y)
    /\ result = Err([kind |-> "MissingSimplicityLeaf", cmr |-> CmrToString(X)])

C28_WitnessRun ==
    /\ LeafWasReplaced
    /\ call.op = "pset_run"
    /\ result = Err([kind |-> "MissingSimplicityLeaf", cmr |-> CmrToString(TargetCmr)])

\* an update that replaced a leaf of another CMR
C28_WitnessReplacing ==
    /\ UpdateSucceededWithCmr
    /\ \E e \in ParsePset(pset).val.inputs[UpdatedInput + 1].tap_scripts : e # UpdatedLeaf


----------------------------------------------------------------------------
(* C29 *)

FlowInputs == 0..(n_inputs(ParsePset(pset).val) - 1)

FinalizeOrRunOnInput == IsFinalizeOrRun /\ TargetInput \in FlowInputs

\* no pset_update_input has succeeded since pset_create
FreshlyCreated == \A j \in InputIndices : ~prev.updated[j]

\* the leaf of the program is the one registered on the target input, and
\* some other input has never been updated
LeafRegisteredOtherInputNotUpdated ==
    /\ FinalizeOrRunOnInput
    /\ prev.last[TargetInput] = Some(TargetCmr)
    /\ \E j \in FlowInputs \ {TargetInput} : ~prev.updated[j]

FirstNotUpdated == CHOOSE j \in FlowInputs : ~prev.updated[j] /\ \A k \in 0..(j - 1) : prev.updated[k]

\* C29: in a sequence that starts from pset_create, pset_finalize and pset_run
\* on input i with a program of CMR X succeed only if pset_update_input has
\* succeeded on i with CMR X and has succeeded on every other input; on a
\* freshly created PSET they fail with MissingSimplicityLeaf, and with the leaf
\* registered on i and another input never updated with MissingWitnessUtxo.
C29_FinalizeNeedsTheUpdates ==
    /\ (IsFinalizeOrRun /\ result.ok) =>
          /\ TargetInput \in FlowInputs
          /\ TargetCmr \in prev.registered[TargetInput]
          /\ \A j \in FlowInputs \ {TargetInput} : prev.updated[j]
    /\ (FinalizeOrRunOnInput /\ FreshlyCreated) =>
          result = Err([kind |-> "MissingSimplicityLeaf", cmr |-> CmrToString(TargetCmr)])
    /\ LeafRegisteredOtherInputNotUpdated =>
          result = Err([kind |-> "MissingWitnessUtxo", index |-> FirstNotUpdated])

\* a finalize succeeds on the second of two inputs, after both were updated
C29_Witness ==
    /\ call.op = "pset_finalize"
    /\ result.ok
    /\ Cardinality(FlowInputs) = 2
    /\ TargetInput = 1
    /\ prev.updated[0]

C29_WitnessRun == call.op = "pset_run" /\ result.ok /\ Cardinality(FlowInputs) = 2

C29_WitnessFresh ==
    /\ FinalizeOrRunOnInput
    /\ FreshlyCreated
    /\ result = Err([kind |-> "MissingSimplicityLeaf", cmr |-> CmrToString(TargetCmr)])

C29_WitnessOtherInput ==
    /\ LeafRegisteredOtherInputNotUpdated
    /\ result = Err([kind |-> "MissingWitnessUtxo", index |-> FirstNotUpdated])


----------------------------------------------------------------------------
(* C30 *)

ShutdownCalled == call.pc = "started" /\ call.shutdowns > 0
AcceptLoopTerminated == result.pc = "stopped"

\* C30: once start() has returned successfully, any later call to shutdown()
\* makes the accept loop of the server terminate eventually, whatever the
\* scheduling of the server thread relative to the caller.
C30_ShutdownStopsTheServer == ShutdownCalled ~> AcceptLoopTerminated

\* a shutdown() the subscribed receiver has got stops the loop
C30_ReceivedShutdownStopsTheServer == RecvReady(mem) ~> AcceptLoopTerminated

\* the server waits in select! after every shutdown() the caller makes was
\* sent with no receiver subscribed
ShutdownLost ==
    /\ call.shutdowns = MaxShutdowns
    /\ result.pc = "select"
    /\ ~RecvReady(mem)

C30_ShutdownIsNeverLost == ~ShutdownLost

====
